---------------------------- MODULE Spec2Model ----------------------------
(***************************************************************************)
(* A model of the cost-calculation core of core-task-engine: the           *)
(* BaseCalculator orchestrator (calculateCosts, validateComponents, the    *)
(* effort-based cost formula) and the ATR, QPlusPlus and SCP calculators.  *)
(*                                                                         *)
(* Numbers.  A JavaScript number is an IEEE 754 binary64 value, and the    *)
(* model computes with it as the code does: a number is a record           *)
(* [nan, m, e] standing for NaN or for the value m * 2^e, where m is zero  *)
(* or a 53-bit natural number, and +, -, *, / and toFixed(2) round as      *)
(* binary64 arithmetic rounds (to nearest, ties to even).  The mantissa m  *)
(* is a natural number of more than 32 bits, held as a sequence of limbs.  *)
(* Numbers of the code are never negative, infinite or subnormal for the   *)
(* requests drawn here, and those values are not modelled.  A decimal       *)
(* literal of the source or of a request body (33.33) is written as a      *)
(* ratio of integers (3333 / 100) and denotes the nearest binary64 value,  *)
(* as it does to the JavaScript parser.                                    *)
(***************************************************************************)
EXTENDS Integers, Sequences, FiniteSets, TLC

VARIABLES
    calc,       \* the calculator instance calculateCosts is invoked on
    request,    \* the AssetCostRequest of the call in progress
    pc,         \* where the call stands
    trace,      \* the operations the call has started and completed, in order
    buildCostResult,  \* what calculateBuildCost resolved to
    runCostResult,    \* what calculateRunCost resolved to
    response,   \* the AssetCostResponse, once returned
    failure,    \* the error the call was rejected with
    ret,        \* the value returned by a function applied on its own
    calculators,  \* the registry of the CostingService: its entries, in the
                  \* order of the Map's keys
    callee,     \* the calculator the CostingService called calculateCosts on
    parked      \* the frame of a call suspended at an await while another runs

vars == <<calc, request, pc, trace, buildCostResult, runCostResult,
          response, failure, ret, calculators, callee, parked>>

----------------------------------------------------------------------------
(* Bounds of the model. *)

\* The size of a request is the number of its components plus the number of
\* resource allocations in all their resourceModels: the largest size drawn.
MaxRequestSize == 4

----------------------------------------------------------------------------
(* Natural numbers of any size: a sequence of limbs in base 2^15, the      *)
(* least significant first, without leading zero limbs (zero is <<>>).     *)

Base == 2 ^ 15

Max(p, q) == IF p > q THEN p ELSE q
Min(p, q) == IF p < q THEN p ELSE q

RECURSIVE Norm(_)
Norm(a) ==
    IF Len(a) > 0 /\ a[Len(a)] = 0 THEN Norm(SubSeq(a, 1, Len(a) - 1)) ELSE a

RECURSIVE BigOfInt(_)
BigOfInt(n) == IF n = 0 THEN <<>> ELSE <<n % Base>> \o BigOfInt(n \div Base)

RECURSIVE IntOfBig(_)
IntOfBig(a) == IF a = <<>> THEN 0 ELSE Head(a) + Base * IntOfBig(Tail(a))

Limb(a, i) == IF i <= Len(a) THEN a[i] ELSE 0

RECURSIVE AddFrom(_, _, _, _)
AddFrom(a, b, i, carry) ==
    IF i > Max(Len(a), Len(b))
    THEN (IF carry = 0 THEN <<>> ELSE <<carry>>)
    ELSE LET s == Limb(a, i) + Limb(b, i) + carry
         IN <<s % Base>> \o AddFrom(a, b, i + 1, s \div Base)

\* a + b
BigAdd(a, b) == AddFrom(a, b, 1, 0)

RECURSIVE SubFrom(_, _, _, _)
SubFrom(a, b, i, borrow) ==
    IF i > Len(a) THEN <<>>
    ELSE LET s == Limb(a, i) - Limb(b, i) - borrow
         IN <<IF s < 0 THEN s + Base ELSE s>>
            \o SubFrom(a, b, i + 1, IF s < 0 THEN 1 ELSE 0)

\* a - b, for a >= b
BigSub(a, b) == Norm(SubFrom(a, b, 1, 0))

RECURSIVE CmpFrom(_, _, _)
CmpFrom(a, b, i) ==
    IF i = 0 THEN 0
    ELSE IF Limb(a, i) > Limb(b, i) THEN 1
    ELSE IF Limb(a, i) < Limb(b, i) THEN -1
    ELSE CmpFrom(a, b, i - 1)

\* 1, 0 or -1 as a is greater than, equal to or less than b
BigCmp(a, b) == CmpFrom(a, b, Max(Len(a), Len(b)))

RECURSIVE MulSmallFrom(_, _, _, _)
MulSmallFrom(a, k, i, carry) ==
    IF i > Len(a) THEN (IF carry = 0 THEN <<>> ELSE <<carry>>)
    ELSE LET p == a[i] * k + carry
         IN <<p % Base>> \o MulSmallFrom(a, k, i + 1, p \div Base)

\* a * k, for an integer 0 <= k <= Base
BigMulSmall(a, k) == IF k = 0 THEN <<>> ELSE MulSmallFrom(a, k, 1, 0)

\* a * b
RECURSIVE BigMul(_, _)
BigMul(a, b) ==
    IF a = <<>> \/ b = <<>> THEN <<>>
    ELSE LET rest == BigMul(a, Tail(b))
         IN BigAdd(BigMulSmall(a, Head(b)),
                   IF rest = <<>> THEN <<>> ELSE <<0>> \o rest)

RECURSIVE DivSmallFrom(_, _, _, _)
DivSmallFrom(a, k, i, rem) ==
    IF i = 0 THEN [q |-> <<>>, r |-> rem]
    ELSE LET cur == rem * Base + a[i]
             rest == DivSmallFrom(a, k, i - 1, cur % k)
         IN [q |-> Append(rest.q, cur \div k), r |-> rest.r]

\* the quotient q and the remainder r of a by k, for an integer 0 < k <= Base
BigDivSmall(a, k) ==
    LET d == DivSmallFrom(a, k, Len(a), 0) IN [q |-> Norm(d.q), r |-> d.r]

RECURSIVE BitsOfInt(_)
BitsOfInt(n) == IF n = 0 THEN 0 ELSE 1 + BitsOfInt(n \div 2)

\* the number of bits of a
BitLen(a) == IF a = <<>> THEN 0 ELSE 15 * (Len(a) - 1) + BitsOfInt(a[Len(a)])

\* a * 2^n
BigShl(a, n) ==
    IF a = <<>> THEN <<>>
    ELSE [i \in 1..(n \div 15) |-> 0] \o BigMulSmall(a, 2 ^ (n % 15))

\* a divided by 2^n, rounded down
BigShr(a, n) ==
    IF n \div 15 >= Len(a) THEN <<>>
    ELSE BigDivSmall(SubSeq(a, n \div 15 + 1, Len(a)), 2 ^ (n % 15)).q

----------------------------------------------------------------------------
(* JavaScript values. *)

\* an optional field that is not present (undefined)
Absent == "undefined"

\* the number 0, and NaN (the result of arithmetic on undefined)
Zero == [nan |-> FALSE, m |-> <<>>, e |-> 0]
NaN == [nan |-> TRUE, m |-> <<>>, e |-> 0]

\* the number m * 2^e
Double(m, e) == [nan |-> FALSE, m |-> m, e |-> e]

\* 1, 0 or -1 as what M leaves over q * 2^n is greater than, equal to or
\* less than half of 2^n, for q the quotient of M by 2^n rounded down
CmpHalf(M, n, q) == BigCmp(BigSub(M, BigShl(q, n)), BigShl(<<1>>, n - 1))

\* q, or q + 1 when the part left over is more than a half (c = 1), or is a
\* half (c = 0) and q is odd
RoundHalfEven(q, c) ==
    IF c > 0 \/ (c = 0 /\ q[1] % 2 = 1) THEN BigAdd(q, <<1>>) ELSE q

\* a rounded mantissa of 53 bits, or of 54 bits when rounding carried to 2^53
Renormalise(rounded, e) ==
    IF BitLen(rounded) = 54 THEN Double(BigShr(rounded, 1), e + 1)
    ELSE Double(rounded, e)

\* M * 2^E for M of len bits, more than 53: the n = len - 53 low bits are
\* dropped from M, q being what is left
DropBits(M, E, n, q) == Renormalise(RoundHalfEven(q, CmpHalf(M, n, q)), E + n)

RoundBits(M, E, len) ==
    IF len = 0 THEN Zero
    ELSE IF len <= 53 THEN Double(BigShl(M, 53 - len), E - (53 - len))
    ELSE DropBits(M, E, len - 53, BigShr(M, len - 53))

\* the binary64 value nearest to M * 2^E, the one with the even mantissa when
\* two are equally near
RoundToDouble(M, E) == RoundBits(M, E, BitLen(M))

\* the number an integer literal n >= 0 denotes
FromInt(n) == RoundToDouble(BigOfInt(n), 0)

\* the binary64 value nearest to x * 2^E, for x the exact quotient that has
\* the integer part qr.q and a fraction that is zero when qr.r is: x is taken
\* with one more bit, which tells whether anything was left over
RoundQuotient(qr, E) ==
    RoundToDouble(BigAdd(BigShl(qr.q, 1), IF qr.r = 0 THEN <<>> ELSE <<1>>), E - 1)

\* the number the decimal literal n / d denotes, for integers n >= 0 and
\* 0 < d <= Base: the quotient is taken to 75 binary places and then rounded
FromRatio(n, d) == RoundQuotient(BigDivSmall(BigShl(BigOfInt(n), 75), d), -75)

\* the mantissa of a at the exponent e <= a.e
Align(a, e) == BigShl(a.m, a.e - e)

\* x + y at the exponent e
AddAt(a, b, e) == RoundToDouble(BigAdd(Align(a, e), Align(b, e)), e)

\* a + b
FAdd(a, b) ==
    IF a.nan \/ b.nan THEN NaN
    ELSE IF a.m = <<>> THEN b
    ELSE IF b.m = <<>> THEN a
    ELSE AddAt(a, b, Min(a.e, b.e))

\* |x - y|
BigAbsDiff(x, y) == IF BigCmp(x, y) >= 0 THEN BigSub(x, y) ELSE BigSub(y, x)

AbsDiffAt(a, b, e) == RoundToDouble(BigAbsDiff(Align(a, e), Align(b, e)), e)

\* Math.abs(a - b)
FAbsDiff(a, b) ==
    IF a.nan \/ b.nan THEN NaN
    ELSE IF a.m = <<>> THEN b
    ELSE IF b.m = <<>> THEN a
    ELSE AbsDiffAt(a, b, Min(a.e, b.e))

\* a * b
FMul(a, b) ==
    IF a.nan \/ b.nan THEN NaN
    ELSE RoundToDouble(BigMul(a.m, b.m), a.e + b.e)

\* a / k, for an integer 0 < k < 2^10: the quotient of the mantissa is taken
\* to 15 binary places and then rounded
FDivInt(a, k) ==
    IF a.nan THEN NaN
    ELSE RoundQuotient(BigDivSmall(BigShl(a.m, 15), k), a.e - 15)

\* a > b (false when either is NaN)
FGt(a, b) ==
    /\ ~a.nan /\ ~b.nan
    /\ a.m # <<>>
    /\ \/ b.m = <<>>
       \/ a.e > b.e
       \/ a.e = b.e /\ BigCmp(a.m, b.m) > 0

\* the integer nearest to M / 2^n, the larger one when two are equally near,
\* for q the quotient rounded down
NearestHalfUp(M, n, q) == IntOfBig(q) + (IF CmpHalf(M, n, q) >= 0 THEN 1 ELSE 0)

\* the integer nearest to M * 2^e
NearestInt(M, e) ==
    IF e >= 0 THEN IntOfBig(BigShl(M, e)) ELSE NearestHalfUp(M, -e, BigShr(M, -e))

\* a.toFixed(2), as the integer n of the digits it prints: n / 100 is the
\* two-decimal number nearest to the exact value of a, the larger one when
\* two are equally near
ToFixed2(a) == NearestInt(BigMulSmall(a.m, 100), a.e)

\* Number(a.toFixed(2))
RoundToCents(a) == IF a.nan THEN NaN ELSE FromRatio(ToFixed2(a), 100)

\* the literals 0.01 and 100 of validateComponents
Tolerance == FromRatio(1, 100)
FullAllocation == FromInt(100)
\* an amount of n whole dollars
Dollars(n) == FromInt(n)

----------------------------------------------------------------------------
(* BaseCalculator.validateComponents *)

\* names.indexOf(item): the first index holding item
RECURSIVE IndexOfFrom(_, _, _)
IndexOfFrom(names, item, i) ==
    IF i > Len(names) THEN 0
    ELSE IF names[i] = item THEN i
    ELSE IndexOfFrom(names, item, i + 1)

IndexOf(names, item) == IndexOfFrom(names, item, 1)

\* names.filter((item, index) => names.indexOf(item) !== index)
RECURSIVE DuplicatesFrom(_, _)
DuplicatesFrom(names, i) ==
    IF i > Len(names) THEN <<>>
    ELSE (IF IndexOf(names, names[i]) # i THEN <<names[i]>> ELSE <<>>)
         \o DuplicatesFrom(names, i + 1)

Duplicates(names) == DuplicatesFrom(names, 1)

\* resourceModel.reduce((sum, resource) => sum + resource.allocation, 0)
RECURSIVE TotalAllocation(_)
TotalAllocation(resourceModel) ==
    IF resourceModel = <<>> THEN Zero
    ELSE FAdd(TotalAllocation(SubSeq(resourceModel, 1, Len(resourceModel) - 1)),
              resourceModel[Len(resourceModel)].allocation)

\* One error string of validateComponents: its fixed text, and the component
\* name, the allocation sum and the duplicate names the text is built from.
ValidationError(msg, name, sum, names) ==
    [msg |-> msg, name |-> name, sum |-> sum, names |-> names]

\* the comparison of an earlier revision: totalAllocation !== 100
AllocationIsNot100(totalAllocation) == totalAllocation # FullAllocation

\* Math.abs(totalAllocation - 100) > 0.01
AllocationOffBy001(totalAllocation) ==
    FGt(FAbsDiff(totalAllocation, FullAllocation), Tolerance)

\* the errors the loop body pushes for one component whose allocations sum
\* to totalAllocation
ComponentErrorsFor(component, totalAllocation) ==
    (IF component.name = ""
     THEN <<ValidationError("Component missing name", "", Zero, <<>>)>>
     ELSE <<>>)
    \o
    (IF component.resourceModel = <<>>
     THEN <<ValidationError("has no resource allocation",
              IF component.name = "" THEN "unnamed" ELSE component.name, Zero, <<>>)>>
     ELSE IF AllocationOffBy001(totalAllocation)
     THEN <<ValidationError("resource allocations should sum to 100%",
              component.name, totalAllocation, <<>>)>>
     ELSE <<>>)

\* the errors the loop body pushes for one component
ComponentErrors(component) ==
    ComponentErrorsFor(component, TotalAllocation(component.resourceModel))

\* a loop that leaves after its first iteration
FirstComponentErrors(components) ==
    IF components = <<>> THEN <<>> ELSE ComponentErrors(Head(components))

RECURSIVE EachComponentErrors(_)
EachComponentErrors(components) ==
    IF components = <<>> THEN <<>>
    ELSE ComponentErrors(Head(components)) \o EachComponentErrors(Tail(components))

ComponentNames(components) == [i \in 1..Len(components) |-> components[i].name]

\* a validateComponents without the duplicate-names check
NoDuplicateErrors(components) == <<>>

\* the duplicate-names check: uniqueNames.size !== components.length
DuplicateErrors(components) ==
    LET names == ComponentNames(components)
        uniqueNames == {names[i] : i \in 1..Len(names)}
    IN IF Cardinality(uniqueNames) # Len(components)
       THEN <<ValidationError("Duplicate component names found", "", Zero,
                               Duplicates(names))>>
       ELSE <<>>

\* the validateComponents of an earlier revision, which threw a
\* BadRequestException at the first violation instead of returning a list
validateComponentsThrowing(hasComponents, components) ==
    LET Throw(errors) == [threw |-> errors # <<>>, errors |-> SubSeq(errors, 1, 1)]
    IN Throw(IF ~hasComponents \/ Len(components) = 0
             THEN <<ValidationError("No components specified", "", Zero, <<>>)>>
             ELSE DuplicateErrors(components) \o EachComponentErrors(components))

\* a validateComponents without the check for an absent or empty list
validateComponentsOfAnyLength(hasComponents, components) ==
    [threw |-> FALSE,
     errors |-> DuplicateErrors(components) \o EachComponentErrors(components)]

\* a validateComponents that finds nothing
validateComponentsLenient(hasComponents, components) ==
    [threw |-> FALSE, errors |-> <<>>]

\* validateComponents(components): the returned list of errors.  threw is
\* whether the call ended in an exception instead of returning.
validateComponents(hasComponents, components) ==
    IF ~hasComponents \/ Len(components) = 0
    THEN [threw |-> FALSE,
          errors |-> <<ValidationError("No components specified", "", Zero, <<>>)>>]
    ELSE [threw |-> FALSE,
          errors |-> DuplicateErrors(components) \o EachComponentErrors(components)]

----------------------------------------------------------------------------
(* Rate and effort tables.  A table is a function; a key outside its       *)
(* DOMAIN is a lookup that yields undefined.                               *)

ComplexityLevels == {"xSmall", "Small", "Medium", "Large", "xLarge"}

Rates(xs, s, m, l, xl) ==
    [xSmall |-> xs, Small |-> s, Medium |-> m, Large |-> l, xLarge |-> xl]

\* AtrCalculator.getBlendRates
AtrBlendRates ==
    [India     |-> Rates(14, 14, 15, 16, 17),
     Australia |-> Rates(48, 49, 52, 53, 55)]

\* the hours of one entry of AtrCalculator.getEffortHours, each given in
\* hundredths (19.39 is 1939 / 100)
AtrHours(australia, india) == [Australia |-> australia, India |-> india]

\* the numbers an entry given in hundredths denotes
Hundredths(hours) == [location \in DOMAIN hours |-> FromRatio(hours[location], 100)]

\* the table of AtrCalculator.getEffortHours
AtrEffortHoursByComponent ==
    "ignition" :>
        [xSmall |-> AtrHours(1939, 2114),
         Small  |-> AtrHours(2134, 2310),
         Medium |-> AtrHours(3125, 3280),
         Large  |-> AtrHours(4120, 4260),
         xLarge |-> AtrHours(5091, 5247)]
    @@ "automation configuration" :>
        [xSmall |-> AtrHours(2135, 1000),
         Small  |-> AtrHours(2092, 1000),
         Medium |-> AtrHours(1776, 1000),
         Large  |-> AtrHours(1552, 1000),
         xLarge |-> AtrHours(1311, 1000)]

\* QPlusPlusCalculator.getBlendRates
QppBlendRates ==
    [Australia |-> Rates(63, 63, 65, 68, 72),
     India     |-> Rates(14, 14, 15, 16, 17),
     US        |-> Rates(75, 75, 80, 85, 90),
     EU        |-> Rates(70, 70, 75, 80, 85),
     APAC      |-> Rates(60, 60, 65, 70, 75),
     UK        |-> Rates(80, 80, 85, 90, 95),
     LATAM     |-> Rates(50, 50, 55, 60, 65)]

\* the hours of one entry of QPlusPlusCalculator.getEffortHours, whole numbers
QppHours(in, us, eu, apac) == [India |-> in, US |-> us, EU |-> eu, APAC |-> apac]

\* the numbers an entry of whole hours denotes
WholeHours(hours) == [location \in DOMAIN hours |-> FromInt(hours[location])]

\* the table of QPlusPlusCalculator.getEffortHours
QppEffortHoursDb ==
    [Frontend |->
        [xSmall |-> QppHours(25, 20, 22, 24), Small  |-> QppHours(35, 30, 32, 34),
         Medium |-> QppHours(45, 40, 42, 44), Large  |-> QppHours(55, 50, 52, 54),
         xLarge |-> QppHours(65, 60, 62, 64)],
     Backend |->
        [xSmall |-> QppHours(30, 25, 27, 29), Small  |-> QppHours(40, 35, 37, 39),
         Medium |-> QppHours(50, 45, 47, 49), Large  |-> QppHours(60, 55, 57, 59),
         xLarge |-> QppHours(70, 65, 67, 69)],
     Database |->
        [xSmall |-> QppHours(15, 10, 12, 14), Small  |-> QppHours(25, 20, 22, 24),
         Medium |-> QppHours(35, 30, 32, 34), Large  |-> QppHours(45, 40, 42, 44),
         xLarge |-> QppHours(55, 50, 52, 54)]]

\* A thrown Error: its fixed text and the values its message names.
Error(msg, a, b) == [msg |-> msg, a |-> a, b |-> b]
NoError == Error("", "", "")

Threw(e) == [threw |-> TRUE, error |-> e, value |-> <<>>]
Returned(v) == [threw |-> FALSE, error |-> NoError, value |-> <<v>>]
\* the value a call returned
Value(r) == r.value[1]

\* AtrCalculator.getEffortHours(component, complexity)
AtrGetEffortHours(component, complexity) ==
    IF component \notin DOMAIN AtrEffortHoursByComponent
    THEN Threw(Error("Effort hours not found for component", component, ""))
    ELSE IF complexity \notin DOMAIN AtrEffortHoursByComponent[component]
    THEN Threw(Error("Effort hours not found for component, complexity",
                     component, complexity))
    ELSE Returned(Hundredths(AtrEffortHoursByComponent[component][complexity]))

\* QPlusPlusCalculator.getEffortHours(componentName, complexity)
QppGetEffortHours(componentName, complexity) ==
    IF componentName \notin DOMAIN QppEffortHoursDb
    THEN Threw(Error("No effort hours found for component", componentName, ""))
    ELSE IF complexity \notin DOMAIN QppEffortHoursDb[componentName]
    THEN Threw(Error("No effort hours found for component at complexity",
                     componentName, complexity))
    ELSE Returned(WholeHours(QppEffortHoursDb[componentName][complexity]))

----------------------------------------------------------------------------
(* BaseCalculator.calculateEffortBasedComponentCost *)

\* a getWorkingHoursPerLocation that takes an eight-hour day for a location it
\* does not know
getWorkingHoursOrDefault(location) ==
    CASE location = "Australia" -> Returned(8)
      [] location = "India" -> Returned(9)
      [] OTHER -> Returned(8)

\* BaseCalculator.getWorkingHoursPerLocation
getWorkingHoursPerLocation(location) ==
    CASE location = "Australia" -> Returned(8)
      [] location = "India" -> Returned(9)
      [] OTHER -> Threw(Error("Unknown location", location, ""))

\* an effort that leaves the working hours per day out
EffortsHrWithoutWorkingDay(allocation, workingHours, effortHours, location) ==
    IF location \in DOMAIN effortHours
    THEN FMul(FDivInt(allocation, 100), effortHours[location])
    ELSE NaN

\* (allocation / 100) * workingHours * effortHours[location]; effortHours[location]
\* is undefined for a location the table lacks, and the product is then NaN
EffortsHrForLocation(allocation, workingHours, effortHours, location) ==
    IF location \in DOMAIN effortHours
    THEN FMul(FMul(FDivInt(allocation, 100), FromInt(workingHours)),
              effortHours[location])
    ELSE NaN

\* effortsHrForLocation * blendRate, left unrounded
UnroundedAmount(effortsHr, blendRate) == FMul(effortsHr, FromInt(blendRate))

\* Number((effortsHrForLocation * blendRate).toFixed(2))
RoundedAmount(effortsHr, blendRate) ==
    RoundToCents(FMul(effortsHr, FromInt(blendRate)))

\* One iteration of the loop over component.resourceModel: acc holds
\* totalAmount, totalEffortHours and effortBreakdown.
EffortStep(acc, resource, complexity, blendRates, effortHours) ==
    IF ~(resource.location \in DOMAIN blendRates
         /\ complexity \in DOMAIN blendRates[resource.location]
         /\ blendRates[resource.location][complexity] # 0)
    THEN Threw(Error("Blend rate not found for location at complexity",
                     resource.location, complexity))
    ELSE LET blendRate == blendRates[resource.location][complexity]
             \* totalAmount += amount, totalEffortHours += effortsHrForLocation
             \* and effortBreakdown.push(...)
             Accumulate(effortsHrForLocation, amount) ==
                 Returned(
                     [totalAmount |-> FAdd(acc.totalAmount, amount),
                      totalEffortHours |-> FAdd(acc.totalEffortHours, effortsHrForLocation),
                      effortBreakdown |-> Append(acc.effortBreakdown,
                          [deliveryLocation |-> resource.location,
                           effortHours |-> effortsHrForLocation,
                           effortAmount |-> amount])])
             Cost(effortsHrForLocation) ==
                 Accumulate(effortsHrForLocation,
                            RoundedAmount(effortsHrForLocation, blendRate))
             Hours(workingHours) ==
                 IF workingHours.threw THEN Threw(workingHours.error)
                 ELSE Cost(EffortsHrForLocation(resource.allocation, Value(workingHours),
                                                effortHours, resource.location))
         IN Hours(getWorkingHoursPerLocation(resource.location))

RECURSIVE EffortLoop(_, _, _, _, _)
EffortLoop(acc, resourceModel, complexity, blendRates, effortHours) ==
    IF resourceModel = <<>> THEN Returned(acc)
    ELSE LET Continue(step) ==
                 IF step.threw THEN step
                 ELSE EffortLoop(Value(step), Tail(resourceModel), complexity,
                                 blendRates, effortHours)
         IN Continue(EffortStep(acc, Head(resourceModel), complexity,
                                blendRates, effortHours))

\* A CostBreakdown line item.  hasEffort tells whether the effortHours and
\* effortBreakdown fields are present.
CostBreakdown(name, amount, isError, errorMessage, hasEffort, effortHours, effortBreakdown) ==
    [costComponentName |-> name, amount |-> amount, isError |-> isError,
     errorMessage |-> errorMessage, hasEffort |-> hasEffort,
     effortHours |-> effortHours, effortBreakdown |-> effortBreakdown]

\* a line item without effort detail
LineItem(name, amount) ==
    CostBreakdown(name, amount, FALSE, NoError, FALSE, Zero, <<>>)

\* a catch block that does not flag the line item it makes
UnflaggedErrorItem(name, error) ==
    CostBreakdown(name, Zero, FALSE, error, FALSE, Zero, <<>>)

\* the line item a calculator's catch block makes of a thrown error
ErrorItem(name, error) ==
    CostBreakdown(name, Zero, TRUE, error, FALSE, Zero, <<>>)

\* a cost whose effortHours is that of the last location, not the total
CostWithHoursOfLastLocation(component, complexity, blendRates, effortHours) ==
    LET Result(loop) ==
            IF loop.threw THEN loop
            ELSE Returned(CostBreakdown(component.name, Value(loop).totalAmount, FALSE,
                                        NoError, TRUE,
                                        IF Value(loop).effortBreakdown = <<>> THEN Zero
                                        ELSE Value(loop).effortBreakdown[
                                                 Len(Value(loop).effortBreakdown)].effortHours,
                                        Value(loop).effortBreakdown))
    IN Result(EffortLoop([totalAmount |-> Zero, totalEffortHours |-> Zero,
                          effortBreakdown |-> <<>>],
                         component.resourceModel, complexity, blendRates, effortHours))

calculateEffortBasedComponentCost(component, complexity, blendRates, effortHours) ==
    LET Result(loop) ==
            IF loop.threw THEN loop
            ELSE Returned(CostBreakdown(component.name, Value(loop).totalAmount, FALSE,
                                        NoError, TRUE, Value(loop).totalEffortHours,
                                        Value(loop).effortBreakdown))
    IN Result(EffortLoop([totalAmount |-> Zero, totalEffortHours |-> Zero,
                          effortBreakdown |-> <<>>],
                         component.resourceModel, complexity, blendRates, effortHours))

\* a reduce that keeps the last amount instead of accumulating
LastAmount(breakdown) ==
    IF breakdown = <<>> THEN Zero ELSE breakdown[Len(breakdown)].amount

\* BaseCalculator.calculateTotalFromBreakdown
RECURSIVE calculateTotalFromBreakdown(_)
calculateTotalFromBreakdown(breakdown) ==
    IF breakdown = <<>> THEN Zero
    ELSE FAdd(calculateTotalFromBreakdown(SubSeq(breakdown, 1, Len(breakdown) - 1)),
              breakdown[Len(breakdown)].amount)

----------------------------------------------------------------------------
(* The calculators. *)

Calculators == {"ATR", "QPlusPlus", "SCP"}

\* BaseCalculator.getAssetName: the assetName field of the calculator
getAssetName(calculator) == calculator

\* !x for an optional string: undefined and the empty string are falsy
Falsy(x) == x = Absent \/ x = ""

\* AtrCalculator.calculateEffortBasedCosts: the try block, and the catch
\* block that turns a thrown error into an error line item
AtrCalculateEffortBasedCosts(component, complexity) ==
    LET Caught(cost) ==
            IF cost.threw THEN ErrorItem(component.name, cost.error) ELSE Value(cost)
        Try(effortHours) ==
            IF effortHours.threw THEN ErrorItem(component.name, effortHours.error)
            ELSE Caught(calculateEffortBasedComponentCost(component, complexity,
                            AtrBlendRates, Value(effortHours)))
    IN Try(AtrGetEffortHours(component.name, complexity))

\* the result of a build-cost calculation: the breakdown and its total
BuildCost(breakdown) ==
    Returned([total |-> calculateTotalFromBreakdown(breakdown),
              breakdown |-> breakdown])

\* AtrCalculator.calculateBuildCost once the complexity is validated: the loop
\* over the components, and the total
AtrBuildCostAt(req, complexity) ==
    BuildCost([i \in 1..Len(req.assetComponents) |->
                  AtrCalculateEffortBasedCosts(req.assetComponents[i], complexity)])

\* a calculateBuildCost that takes Medium for a complexity that is absent or
\* not a ComplexityLevel
AtrCalculateBuildCostDefaulting(req) ==
    AtrBuildCostAt(req, IF req.complexity \in ComplexityLevels
                        THEN req.complexity ELSE "Medium")

\* AtrCalculator.calculateBuildCost
AtrCalculateBuildCost(req) ==
    IF Falsy(req.complexity)
    THEN Threw(Error("Complexity is mandatory for ATR cost calculation", "", ""))
    ELSE IF req.complexity \notin ComplexityLevels
    THEN Threw(Error("Invalid complexity", req.complexity, ""))
    ELSE AtrBuildCostAt(req, req.complexity)

\* a support rate that takes the basic rate for a level it does not know
AtrSupportRateDefaultingToBasic(supportLevel) ==
    CASE supportLevel = "basic" -> 100
      [] supportLevel = "standard" -> 250
      [] supportLevel = "premium" -> 500
      [] OTHER -> 100

\* the support cost per license of AtrCalculator.calculateRunCost's switch
AtrSupportRate(supportLevel) ==
    CASE supportLevel = "basic" -> 100
      [] supportLevel = "standard" -> 250
      [] supportLevel = "premium" -> 500
      [] OTHER -> 250

\* a check that refuses a negative licenseCount only (licenseCount < 0)
LicenseCountBelowZero(specificFields) ==
    ~specificFields.hasLicenseCount \/ specificFields.licenseCount < 0

\* !licenseCount || licenseCount < 1
LicenseCountRefused(specificFields) ==
    \/ ~specificFields.hasLicenseCount
    \/ specificFields.licenseCount = 0
    \/ specificFields.licenseCount < 1

\* AtrCalculator.calculateRunCost
AtrCalculateRunCost(req) ==
    LET licenseCount == req.specificFields.licenseCount
    IN IF LicenseCountRefused(req.specificFields)
       THEN Threw(Error("License count must be specified and at least 1 for ATR run cost calculation",
                        "", ""))
       ELSE LET supportLevel == IF Falsy(req.commonFields.supportLevel)
                                THEN "standard" ELSE req.commonFields.supportLevel
                breakdown ==
                    <<LineItem("License Fees", Dollars(500 * licenseCount)),
                      LineItem("Support", Dollars(AtrSupportRate(supportLevel) * licenseCount))>>
                    \o (IF req.commonFields.deploymentType = "cloud"
                        THEN <<LineItem("Cloud Infrastructure", Dollars(200 * licenseCount))>>
                        ELSE <<>>)
            IN Returned([total |-> calculateTotalFromBreakdown(breakdown),
                         breakdown |-> breakdown, period |-> "monthly"])

\* QPlusPlusCalculator.calculateEffortBasedCosts, for one component of the loop
QppCalculateEffortBasedCost(component, complexity) ==
    LET Caught(cost) ==
            IF cost.threw THEN ErrorItem(component.name, cost.error) ELSE Value(cost)
        Try(effortHours) ==
            IF effortHours.threw THEN ErrorItem(component.name, effortHours.error)
            ELSE Caught(calculateEffortBasedComponentCost(component, complexity,
                            QppBlendRates, Value(effortHours)))
    IN Try(QppGetEffortHours(component.name, complexity))

QppCalculateEffortBasedCosts(components, complexity) ==
    [i \in 1..Len(components) |-> QppCalculateEffortBasedCost(components[i], complexity)]

\* { small: 1, medium: 2, large: 3 }[databaseSize] || 1
DbSizeMultiplier(databaseSize) ==
    CASE databaseSize = "small" -> 1
      [] databaseSize = "medium" -> 2
      [] databaseSize = "large" -> 3
      [] OTHER -> 1

\* QPlusPlusCalculator.calculateBuildCost once the complexity is chosen: the
\* effort-based costs, the database setup cost and the total
QppBuildCostAt(req, complexity) ==
    BuildCost(QppCalculateEffortBasedCosts(req.assetComponents, complexity)
              \o (IF ~Falsy(req.specificFields.databaseSize)
                  THEN <<LineItem("Database Setup",
                           Dollars(1000 * DbSizeMultiplier(req.specificFields.databaseSize)))>>
                  ELSE <<>>))

\* a calculateBuildCost that uses request.complexity as it is given
QppCalculateBuildCostAsGiven(req) == QppBuildCostAt(req, req.complexity)

\* a calculateBuildCost that takes Medium for every complexity that is not a
\* ComplexityLevel
QppCalculateBuildCostFallingBack(req) ==
    QppBuildCostAt(req, IF req.complexity \in ComplexityLevels
                        THEN req.complexity ELSE "Medium")

\* a calculateBuildCost that takes the complexity from specificFields, as an
\* earlier version of the calculator did
QppCalculateBuildCostOfSpecificFields(req) ==
    QppBuildCostAt(req, IF Falsy(req.specificFields.complexity) THEN "Medium"
                        ELSE req.specificFields.complexity)

\* QPlusPlusCalculator.calculateBuildCost: request.complexity || 'Medium'
QppCalculateBuildCost(req) ==
    QppBuildCostAt(req, IF Falsy(req.complexity) THEN "Medium" ELSE req.complexity)

\* QPlusPlusCalculator.calculateRunCost
QppCalculateRunCost(req) ==
    LET dbRunCost == IF ~Falsy(req.specificFields.databaseSize)
                     THEN 200 * DbSizeMultiplier(req.specificFields.databaseSize)
                     ELSE 0
        breakdown ==
            <<LineItem("Monthly Service", Dollars(1000))>>
            \o (IF dbRunCost > 0
                THEN <<LineItem("Database Hosting", Dollars(dbRunCost))>>
                ELSE <<>>)
    IN Returned([total |-> calculateTotalFromBreakdown(breakdown),
                 breakdown |-> breakdown, period |-> "monthly"])

\* ScpCalculator.calculateBuildCost
ScpCalculateBuildCost(req) ==
    LET dummyBreakdown == <<LineItem("SCP Setup", Dollars(5000))>>
    IN Returned([total |-> calculateTotalFromBreakdown(dummyBreakdown),
                 breakdown |-> dummyBreakdown])

\* ScpCalculator.calculateRunCost
ScpCalculateRunCost(req) ==
    LET dummyBreakdown == <<LineItem("SCP Monthly Maintenance", Dollars(500))>>
    IN Returned([total |-> calculateTotalFromBreakdown(dummyBreakdown),
                 breakdown |-> dummyBreakdown, period |-> "monthly"])

\* this.getBlendRates(): the subclass's implementation
getBlendRates(calculator) ==
    CASE calculator = "ATR" -> AtrBlendRates
      [] calculator = "QPlusPlus" -> QppBlendRates

\* this.getEffortHours(component, complexity): the subclass's implementation
getEffortHours(calculator, component, complexity) ==
    CASE calculator = "ATR" -> AtrGetEffortHours(component, complexity)
      [] calculator = "QPlusPlus" -> QppGetEffortHours(component, complexity)

\* this.calculateBuildCost(request): the subclass's implementation
calculateBuildCost(calculator, req) ==
    CASE calculator = "ATR" -> AtrCalculateBuildCost(req)
      [] calculator = "QPlusPlus" -> QppCalculateBuildCost(req)
      [] calculator = "SCP" -> ScpCalculateBuildCost(req)

\* this.calculateRunCost(request): the subclass's implementation
calculateRunCost(calculator, req) ==
    CASE calculator = "ATR" -> AtrCalculateRunCost(req)
      [] calculator = "QPlusPlus" -> QppCalculateRunCost(req)
      [] calculator = "SCP" -> ScpCalculateRunCost(req)

----------------------------------------------------------------------------
(* BaseCalculator.calculateCosts.  The method is async: it runs up to its  *)
(* first await in the caller's turn, calling calculateBuildCost on the way, *)
(* and is resumed once for each of its two awaits.                          *)

\* the state in which no call is in progress
Idle ==
    /\ calc = ""
    /\ request = <<>>
    /\ pc = "idle"
    /\ trace = <<>>
    /\ buildCostResult = <<>>
    /\ runCostResult = <<>>
    /\ response = <<>>
    /\ failure = <<>>
    /\ ret = <<>>
    /\ calculators = <<>>
    /\ callee = <<>>
    /\ parked = <<>>

\* the call is rejected with error e, having started the operations ops
Reject(ops, e) ==
    /\ pc' = "failed"
    /\ trace' = ops
    /\ failure' = <<e>>
    /\ UNCHANGED <<buildCostResult, runCostResult, response, ret, calculators, parked>>

\* a calculateCosts without the name check
AssetNameUnchecked(calculator, req) == FALSE

\* request.assetName !== this.assetName
AssetNameMismatch(calculator, req) == req.assetName # getAssetName(calculator)

\* calculateCosts(req) is invoked on calculator c: the name check, component
\* validation and the call of calculateBuildCost, up to the first await
CalculateCosts(c, req) ==
    /\ pc = "idle"
    /\ calc' = c
    /\ request' = <<req>>
    /\ LET validation == validateComponents(req.hasComponents, req.assetComponents)
           build == calculateBuildCost(c, req)
       IN IF AssetNameMismatch(c, req)
          THEN Reject(<<"checkAssetName">>,
                      [kind |-> "Invalid asset name", error |-> NoError, errors |-> <<>>])
          ELSE IF validation.threw
          THEN Reject(<<"checkAssetName", "validateComponents">>,
                      [kind |-> "validateComponents threw", error |-> NoError,
                       errors |-> validation.errors])
          ELSE IF Len(validation.errors) > 0
          THEN Reject(<<"checkAssetName", "validateComponents">>,
                      [kind |-> "Invalid request components", error |-> NoError,
                       errors |-> validation.errors])
          ELSE IF build.threw
          THEN Reject(<<"checkAssetName", "validateComponents", "calculateBuildCost">>,
                      [kind |-> "calculateBuildCost threw", error |-> build.error,
                       errors |-> <<>>])
          ELSE /\ pc' = "awaitBuild"
               /\ trace' = <<"checkAssetName", "validateComponents", "calculateBuildCost">>
               /\ buildCostResult' = <<Value(build)>>
               /\ UNCHANGED <<runCostResult, response, failure, ret, calculators, parked>>

\* the first await resumes with the build cost: calculateRunCost is called
ResumeWithBuildCost ==
    /\ pc = "awaitBuild"
    /\ LET run == calculateRunCost(calc, request[1])
       IN IF run.threw
          THEN /\ pc' = "failed"
               /\ trace' = Append(trace, "calculateRunCost")
               /\ failure' = <<[kind |-> "calculateRunCost threw", error |-> run.error,
                                errors |-> <<>>]>>
               /\ UNCHANGED runCostResult
          ELSE /\ pc' = "awaitRun"
               /\ trace' = Append(trace, "calculateRunCost")
               /\ runCostResult' = <<Value(run)>>
               /\ UNCHANGED failure
    /\ UNCHANGED <<calc, request, buildCostResult, response, ret,
                   calculators, callee, parked>>

\* a response whose run cost repeats the total of the build cost
ResponseWithBuildTotalTwice(assetName, build, run, now) ==
    [assetName |-> assetName,
     buildCost |-> [total |-> build.total, currency |-> "USD",
                    breakdown |-> build.breakdown],
     runCost |-> [total |-> build.total, currency |-> "USD",
                  period |-> run.period, breakdown |-> run.breakdown],
     estimationDate |-> now]

\* the AssetCostResponse calculateCosts assembles
AssetCostResponse(assetName, build, run, now) ==
    [assetName |-> assetName,
     buildCost |-> [total |-> build.total, currency |-> "USD",
                    breakdown |-> build.breakdown],
     runCost |-> [total |-> run.total, currency |-> "USD",
                  period |-> run.period, breakdown |-> run.breakdown],
     estimationDate |-> now]

\* the second await resumes with the run cost: the response is assembled, with
\* the wall-clock time now as its estimationDate, and returned
ResumeWithRunCost(now) ==
    /\ pc = "awaitRun"
    /\ pc' = "done"
    /\ trace' = Append(trace, "respond")
    /\ response' = <<AssetCostResponse(getAssetName(calc), buildCostResult[1],
                                       runCostResult[1], now)>>
    /\ UNCHANGED <<calc, request, buildCostResult, runCostResult, failure, ret,
                   calculators, callee, parked>>

\* the caller has taken the settled promise's outcome; the calculator keeps
\* nothing of the call
Settle ==
    /\ pc \in {"done", "failed", "returned"}
    /\ calc' = ""
    /\ request' = <<>>
    /\ pc' = "idle"
    /\ trace' = <<>>
    /\ buildCostResult' = <<>>
    /\ runCostResult' = <<>>
    /\ response' = <<>>
    /\ failure' = <<>>
    /\ ret' = <<>>
    /\ callee' = <<>>
    /\ UNCHANGED <<calculators, parked>>

----------------------------------------------------------------------------
(* The requests the calls are made with. *)

\* every sequence over S of length n
RECURSIVE SeqsOfLen(_, _)
SeqsOfLen(S, n) ==
    IF n = 0 THEN {<<>>}
    ELSE {Append(q, x) : q \in SeqsOfLen(S, n - 1), x \in S}

\* every component with a name from names and n resource allocations from
\* resources
ComponentsOfSize(names, resources, n) ==
    {[name |-> nm, resourceModel |-> rm] : nm \in names, rm \in SeqsOfLen(resources, n)}

\* every list of components, with names from names and resource allocations
\* from resources, whose size (components plus allocations) is at most size
RECURSIVE ComponentLists(_, _, _)
ComponentLists(names, resources, size) ==
    IF size <= 0 THEN {<<>>}
    ELSE {<<>>} \cup
         UNION {LET rest == ComponentLists(names, resources, size - 1 - n)
                IN {<<c>> \o r : c \in ComponentsOfSize(names, resources, n), r \in rest}
                : n \in 0..(size - 1)}

\* allocations are given in hundredths of a percent (33.33 is 3333)
ResourceAllocations(locations, allocations) ==
    {[location |-> l, allocation |-> FromRatio(a, 100)] :
        l \in locations, a \in allocations}

AssetCostRequest(assetName, complexity, deploymentType, supportLevel, hasComponents, assetComponents, hasLicenseCount, licenseCount, databaseSize) ==
    [assetName |-> assetName, complexity |-> complexity,
     commonFields |-> [deploymentType |-> deploymentType, supportLevel |-> supportLevel],
     hasComponents |-> hasComponents, assetComponents |-> assetComponents,
     specificFields |-> [hasLicenseCount |-> hasLicenseCount,
                         licenseCount |-> licenseCount,
                         databaseSize |-> databaseSize,
                         complexity |-> Absent]]

\* a request with the given name and components whose other fields every
\* calculator accepts
PlainRequest(assetName, hasComponents, assetComponents) ==
    AssetCostRequest(assetName, "Medium", "cloud", Absent, hasComponents,
                     assetComponents, TRUE, 1, Absent)

\* Requests that vary the components: component names known to ATR and to
\* QPlusPlus, locations with and without rates, working hours and effort hours.
MainComponentLists ==
    ComponentLists({"ignition", "Frontend"},
                   ResourceAllocations({"India"}, {5000, 10000})
                   \cup ResourceAllocations({"Australia"}, {5000})
                   \cup ResourceAllocations({"US"}, {10000}),
                   MaxRequestSize)

\* Requests that vary the other fields, over the smallest component lists.
SmallComponentLists ==
    ComponentLists({"ignition", "Frontend"},
                   ResourceAllocations({"India", "Australia", "US"}, {10000}),
                   MaxRequestSize - 2)

\* Requests that vary what the effort formula fails on: component names each
\* calculator knows and does not know, and locations with and without blend
\* rates, working hours and effort hours, each at 100%.
CatchComponentLists ==
    ComponentLists({"ignition", "Frontend", "Backend"},
                   ResourceAllocations({"India", "Australia", "US"}, {10000}),
                   MaxRequestSize)

\* specificFields.licenseCount: absent, zero, negative and positive
LicenseCounts == {<<FALSE, 0>>, <<TRUE, 0>>, <<TRUE, -1>>, <<TRUE, 2>>}

\* Requests that vary what the run cost of ATR reads: the license count, the
\* support level and the deployment type.
RunCostRequests ==
    {AssetCostRequest("ATR", "Medium", dt, sl, TRUE,
                      <<[name |-> "ignition",
                         resourceModel |-> <<[location |-> "India",
                                              allocation |-> FromInt(100)]>>]>>,
                      TRUE, n, Absent) :
        dt \in {Absent, "cloud", "onPremise", "hybrid"},
        sl \in {Absent, "", "basic", "standard", "premium", "gold"},
        n \in {1, 3, 10}}

\* Requests that vary the two places a complexity can be written in: the top
\* level of the request and specificFields.
SpecificComplexityRequests ==
    {[AssetCostRequest("QPlusPlus", cx, "cloud", Absent, TRUE, cs, TRUE, 1, db)
         EXCEPT !.specificFields.complexity = scx] :
        cx \in {Absent, "Small", "Large"}, scx \in {Absent, "Small", "Large", "huge"},
        cs \in SmallComponentLists, db \in {Absent, "large"}}

MainRequests ==
    {PlainRequest(n, TRUE, cs) : n \in {"ATR", "QPlusPlus"},
                                 cs \in MainComponentLists \cup CatchComponentLists}
    \cup RunCostRequests
    \cup SpecificComplexityRequests
    \cup {PlainRequest(n, FALSE, <<>>) : n \in Calculators}
    \cup {AssetCostRequest(n, cx, dt, sl, TRUE, cs, lc[1], lc[2], db) :
            n \in Calculators, cx \in {Absent, "", "xSmall", "High", "low", "medium", "high"},
            dt \in {"cloud", "onPremise"}, sl \in {Absent, "premium"},
            cs \in SmallComponentLists, lc \in LicenseCounts,
            db \in {Absent, "large"}}

\* Requests that vary what validateComponents reads: names (one of them empty)
\* and allocation sums at, inside and outside the tolerance around 100.
ValidationComponentLists ==
    ComponentLists({"", "ignition", "automation configuration"},
                   ResourceAllocations({"India"},
                       {3333, 3334, 4000, 4999, 5000, 5001, 6000, 10000}),
                   MaxRequestSize)

ValidationRequests ==
    {PlainRequest("ATR", TRUE, cs) : cs \in ValidationComponentLists}
    \cup {PlainRequest("ATR", FALSE, <<>>)}

\* the instants the wall clock may show when a response is assembled
Instants == {"t1", "t2"}

----------------------------------------------------------------------------
(* validateComponents applied on its own. *)

ValidateComponentsCall(req) ==
    /\ pc = "idle"
    /\ pc' = "returned"
    /\ request' = <<req>>
    /\ trace' = <<"validateComponents">>
    /\ ret' = <<validateComponents(req.hasComponents, req.assetComponents)>>
    /\ UNCHANGED <<calc, buildCostResult, runCostResult, response, failure,
                   calculators, callee, parked>>

----------------------------------------------------------------------------
(* calculateEffortBasedComponentCost applied on its own, with the blend    *)
(* rates and the effort hours of a calculator.                             *)

EffortCall(c, component, complexity) ==
    /\ pc = "idle"
    /\ ~getEffortHours(c, component.name, complexity).threw
    /\ pc' = "returned"
    /\ calc' = c
    /\ request' = <<AssetCostRequest(c, complexity, "cloud", Absent, TRUE,
                                     <<component>>, TRUE, 1, Absent)>>
    /\ trace' = <<"calculateEffortBasedComponentCost">>
    /\ ret' = <<calculateEffortBasedComponentCost(component, complexity,
                    getBlendRates(c),
                    Value(getEffortHours(c, component.name, complexity)))>>
    /\ UNCHANGED <<buildCostResult, runCostResult, response, failure,
                   calculators, callee, parked>>

\* One component of every calculator with effort-based costs, with resource
\* models whose per-location amounts fall on and off half a cent, with a
\* single location at 100%, and with a location (US) that ATR has no blend
\* rate for and no calculator has working hours for.
EffortComponents ==
    UNION {ComponentsOfSize({"ignition", "automation configuration", "Frontend"},
                            ResourceAllocations({"India"}, {1000, 4999, 5000, 5001, 10000})
                            \cup ResourceAllocations({"Australia"}, {5000, 10000})
                            \cup ResourceAllocations({"US"}, {10000}),
                            n) : n \in 0..(MaxRequestSize - 1)}

----------------------------------------------------------------------------
(* The deployment-type and support-level multipliers, in the revision of   *)
(* the calculators that has them: those of the BaseCalculator, which every *)
(* calculator inherits, and those the TestCalculator of the unit tests     *)
(* overrides them with.                                                    *)

\* the classes getDeploymentTypeMultiplier and getSupportLevelMultiplier are
\* applied on
MultiplierCalculators == {"BaseCalculator", "TestCalculator"}

\* multipliers are given in tenths (1.2 is 12)
Tenths(multiplier) == FromRatio(multiplier, 10)

\* the multipliers table of BaseCalculator.getDeploymentTypeMultiplier
BaseCalculatorDeploymentTypeMultipliers ==
    [cloud |-> 8, hybrid |-> 12, onPrem |-> 10, onPremise |-> 10, managed |-> 15]

\* multipliers[key] || 1.0 (no multiplier of a table is zero)
MultiplierOrOne(multipliers, key) ==
    IF key \in DOMAIN multipliers THEN multipliers[key] ELSE 10

BaseCalculatorGetDeploymentTypeMultiplier(req) ==
    MultiplierOrOne(BaseCalculatorDeploymentTypeMultipliers,
                    IF Falsy(req.commonFields.deploymentType) THEN "onPremise"
                    ELSE req.commonFields.deploymentType)

\* the switch of TestCalculator.getDeploymentTypeMultiplier
TestCalculatorGetDeploymentTypeMultiplier(req) ==
    CASE req.commonFields.deploymentType = "onPremise" -> 12
      [] req.commonFields.deploymentType = "cloud" -> 10
      [] req.commonFields.deploymentType = "hybrid" -> 13
      [] req.commonFields.deploymentType = "managed" -> 15
      [] OTHER -> 10

getDeploymentTypeMultiplier(c, req) ==
    Tenths(IF c = "TestCalculator" THEN TestCalculatorGetDeploymentTypeMultiplier(req)
           ELSE BaseCalculatorGetDeploymentTypeMultiplier(req))

\* the multipliers table of BaseCalculator.getSupportLevelMultiplier
BaseCalculatorSupportLevelMultipliers ==
    [basic |-> 10, standard |-> 15, premium |-> 20, enterprise |-> 30]

BaseCalculatorGetSupportLevelMultiplier(req) ==
    MultiplierOrOne(BaseCalculatorSupportLevelMultipliers,
                    IF Falsy(req.commonFields.supportLevel) THEN "basic"
                    ELSE req.commonFields.supportLevel)

\* the switch of TestCalculator.getSupportLevelMultiplier, on
\* supportLevel || 'standard'
TestCalculatorSupportLevelSwitch(supportLevel) ==
    CASE supportLevel = "basic" -> 10
      [] supportLevel = "standard" -> 12
      [] supportLevel = "premium" -> 15
      [] OTHER -> 10

TestCalculatorGetSupportLevelMultiplier(req) ==
    TestCalculatorSupportLevelSwitch(
        IF Falsy(req.commonFields.supportLevel) THEN "standard"
        ELSE req.commonFields.supportLevel)

getSupportLevelMultiplier(c, req) ==
    Tenths(IF c = "TestCalculator" THEN TestCalculatorGetSupportLevelMultiplier(req)
           ELSE BaseCalculatorGetSupportLevelMultiplier(req))

\* the 'deployment' line item of the build cost of the AtrCalculator, which
\* inherits the multiplier of the BaseCalculator:
\* 2000 * this.getDeploymentTypeMultiplier(request)
DeploymentSetupCost(req) ==
    FMul(Dollars(2000), getDeploymentTypeMultiplier("BaseCalculator", req))

\* the requests of the multiplier calls: every deployment type and support
\* level the tables and switches know, and absent, empty and unknown ones
DeploymentTypes ==
    {Absent, "", "onPremise", "onPrem", "cloud", "hybrid", "managed", "edge"}

SupportLevels ==
    {Absent, "", "basic", "standard", "premium", "enterprise", "gold"}

MultiplierRequests ==
    {AssetCostRequest("ATR", "Medium", dt, sl, TRUE, <<>>, TRUE, 1, Absent) :
        dt \in DeploymentTypes, sl \in SupportLevels}

GetDeploymentTypeMultiplierCall(c, req) ==
    /\ pc = "idle"
    /\ pc' = "returned"
    /\ calc' = c
    /\ request' = <<req>>
    /\ trace' = <<"getDeploymentTypeMultiplier">>
    /\ ret' = <<getDeploymentTypeMultiplier(c, req)>>
    /\ UNCHANGED <<buildCostResult, runCostResult, response, failure,
                   calculators, callee, parked>>

GetSupportLevelMultiplierCall(c, req) ==
    /\ pc = "idle"
    /\ pc' = "returned"
    /\ calc' = c
    /\ request' = <<req>>
    /\ trace' = <<"getSupportLevelMultiplier">>
    /\ ret' = <<getSupportLevelMultiplier(c, req)>>
    /\ UNCHANGED <<buildCostResult, runCostResult, response, failure,
                   calculators, callee, parked>>

DeploymentSetupCostCall(req) ==
    /\ pc = "idle"
    /\ pc' = "returned"
    /\ calc' = "ATR"
    /\ request' = <<req>>
    /\ trace' = <<"getDeploymentTypeMultiplier", "deployment">>
    /\ ret' = <<DeploymentSetupCost(req)>>
    /\ UNCHANGED <<buildCostResult, runCostResult, response, failure,
                   calculators, callee, parked>>

----------------------------------------------------------------------------
(* The CostingService: the registry of calculators and the dispatch of a   *)
(* request to the calculator registered under its asset name.              *)

\* the calculator objects: two instances of every calculator class
InstanceIds == {1, 2}
CalculatorInstances == {[assetName |-> n, id |-> i] : n \in Calculators, i \in InstanceIds}

\* the asset names the service is asked for: those of the calculators and one
\* that no calculator has
AssetNames == Calculators \cup {"UNKNOWN"}

\* A Map is the sequence of its entries in insertion order.
\* Map.prototype.has
MapHas(map, key) == \E i \in 1..Len(map) : map[i].key = key

\* Map.prototype.get of a key the map has
RECURSIVE MapGet(_, _)
MapGet(map, key) ==
    IF Head(map).key = key THEN Head(map).value ELSE MapGet(Tail(map), key)

\* a Map.prototype.set that moves a key it already has to the end
MapSetMovingToEnd(map, key, value) ==
    SelectSeq(map, LAMBDA entry : entry.key # key) \o <<[key |-> key, value |-> value]>>

\* a Map.prototype.set that keeps the value a key already has
MapSetIfAbsent(map, key, value) ==
    IF MapHas(map, key) THEN map
    ELSE Append(map, [key |-> key, value |-> value])

\* Map.prototype.set: the value of a key the map has is replaced where the key
\* stands, and a new key is added at the end
MapSet(map, key, value) ==
    IF MapHas(map, key)
    THEN [i \in 1..Len(map) |->
             IF map[i].key = key THEN [key |-> key, value |-> value] ELSE map[i]]
    ELSE Append(map, [key |-> key, value |-> value])

\* Array.from(map.keys())
MapKeys(map) == [i \in 1..Len(map) |-> map[i].key]

\* CostingService.registerCalculator: the registry after the call
registerCalculator(registry, calculator) ==
    MapSet(registry, calculator.assetName, calculator)

NotFoundException(assetName) ==
    [kind |-> "NotFoundException",
     error |-> Error("No calculator found for asset name", assetName, ""),
     errors |-> <<>>]

\* a getCalculator that answers an unknown name with the first calculator
getCalculatorOrFirst(registry, assetName) ==
    IF MapHas(registry, assetName) THEN Returned(MapGet(registry, assetName))
    ELSE IF registry # <<>> THEN Returned(registry[1].value)
    ELSE Threw(NotFoundException(assetName))

\* CostingService.getCalculator: get yields undefined for a key the map lacks
getCalculator(registry, assetName) ==
    IF ~MapHas(registry, assetName) THEN Threw(NotFoundException(assetName))
    ELSE Returned(MapGet(registry, assetName))

\* CostingService.getAvailableAssetNames
getAvailableAssetNames(registry) == MapKeys(registry)

\* the requests the service is given: one component each, under every name
ServiceRequests ==
    {PlainRequest(n, TRUE, <<[name |-> c,
                              resourceModel |-> <<[location |-> "India",
                                                   allocation |-> FromInt(100)]>>]>>) :
        n \in AssetNames, c \in {"ignition", "Frontend"}}

RegisterCalculator(calculator) ==
    /\ pc = "idle"
    /\ pc' = "returned"
    /\ request' = <<calculator>>
    /\ trace' = <<"registerCalculator">>
    /\ calculators' = registerCalculator(calculators, calculator)
    /\ UNCHANGED <<calc, buildCostResult, runCostResult, response, failure, ret,
                   callee, parked>>

GetCalculatorCall(assetName) ==
    /\ pc = "idle"
    /\ request' = <<[assetName |-> assetName]>>
    /\ trace' = <<"getCalculator">>
    /\ LET found == getCalculator(calculators, assetName)
       IN IF found.threw
          THEN pc' = "failed" /\ failure' = <<found.error>> /\ UNCHANGED ret
          ELSE pc' = "returned" /\ ret' = <<Value(found)>> /\ UNCHANGED failure
    /\ UNCHANGED <<calc, buildCostResult, runCostResult, response,
                   calculators, callee, parked>>

GetAvailableAssetNamesCall ==
    /\ pc = "idle"
    /\ pc' = "returned"
    /\ trace' = <<"getAvailableAssetNames">>
    /\ ret' = <<getAvailableAssetNames(calculators)>>
    /\ UNCHANGED <<calc, request, buildCostResult, runCostResult, response, failure,
                   calculators, callee, parked>>

\* CostingService.calculateAssetCost up to the first await of calculateCosts:
\* the calculator is looked up, and calculateCosts is called on it with a
\* request of the fields of the DTO
CalculateAssetCost(dto) ==
    /\ pc = "idle"
    /\ LET found == getCalculator(calculators, dto.assetName)
       IN IF found.threw
          THEN /\ pc' = "failed"
               /\ request' = <<dto>>
               /\ trace' = <<"calculateAssetCost", "getCalculator">>
               /\ failure' = <<found.error>>
               /\ UNCHANGED <<calc, buildCostResult, runCostResult, response, ret,
                              calculators, callee, parked>>
          ELSE /\ CalculateCosts(Value(found).assetName, dto)
               /\ callee' = <<Value(found)>>

----------------------------------------------------------------------------
(* Two calls of calculateCosts on one calculator.  A call runs from one    *)
(* await to the next without interruption; while it is suspended at an     *)
(* await, or once it has ended, another call may run.  The locals of a     *)
(* call (its request, buildCostResult, runCostResult and response) belong  *)
(* to the call; the calculator is shared.                                  *)

\* the locals of the call that is running
Frame ==
    [request |-> request, pc |-> pc, trace |-> trace,
     buildCostResult |-> buildCostResult, runCostResult |-> runCostResult,
     response |-> response, failure |-> failure]

\* the locals of a call that has not begun
NewFrame ==
    [request |-> <<>>, pc |-> "idle", trace |-> <<>>, buildCostResult |-> <<>>,
     runCostResult |-> <<>>, response |-> <<>>, failure |-> <<>>]

\* a calculator that keeps buildCostResult in a field of its own: the other
\* call finds it as this call left it
ResumeSharingBuildCost(frame) ==
    /\ request' = frame.request
    /\ pc' = frame.pc
    /\ trace' = frame.trace
    /\ runCostResult' = frame.runCostResult
    /\ response' = frame.response
    /\ failure' = frame.failure
    /\ UNCHANGED buildCostResult

\* the other call runs with its own locals
Resume(frame) ==
    /\ request' = frame.request
    /\ pc' = frame.pc
    /\ trace' = frame.trace
    /\ buildCostResult' = frame.buildCostResult
    /\ runCostResult' = frame.runCostResult
    /\ response' = frame.response
    /\ failure' = frame.failure

\* the running call is suspended at an await, or has ended, and the other
\* call, or a new one, runs
Switch ==
    /\ pc \in {"awaitBuild", "awaitRun", "done", "failed"}
    /\ parked' = <<Frame>>
    /\ Resume(IF parked = <<>> THEN NewFrame ELSE parked[1])
    /\ UNCHANGED <<calc, ret, calculators, callee>>

\* the requests of the concurrent calls: one component each, with and without
\* a license count, for the calculator and for another
ConcurrentRequests ==
    {AssetCostRequest(n, "Medium", dt, Absent, TRUE,
                      <<[name |-> c, resourceModel |-> <<[location |-> l,
                                          allocation |-> FromInt(100)]>>]>>,
                      lc[1], lc[2], Absent) :
        n \in {"ATR", "QPlusPlus"}, dt \in {"cloud", "onPremise"},
        c \in {"ignition", "Frontend"}, l \in {"India", "US"},
        lc \in {<<FALSE, 0>>, <<TRUE, 2>>}}

----------------------------------------------------------------------------
(* Specifications. *)

\* calculateCosts on any calculator, with any request of MainRequests
Next ==
    \/ pc = "idle" /\ \E c \in Calculators, req \in MainRequests :
                        /\ req.assetName = c \/ req.assetComponents \in SmallComponentLists
                        /\ CalculateCosts(c, req)
                        /\ UNCHANGED callee
    \/ ResumeWithBuildCost
    \/ \E now \in Instants : ResumeWithRunCost(now)
    \/ Settle

Spec == Idle /\ [][Next]_vars

\* validateComponents on its own and within calculateCosts of the ATR
\* calculator, with any request of ValidationRequests
NextValidate ==
    \/ pc = "idle" /\ \E req \in ValidationRequests : ValidateComponentsCall(req)
    \/ pc = "idle" /\ \E req \in ValidationRequests :
                        CalculateCosts("ATR", req) /\ UNCHANGED callee
    \/ ResumeWithBuildCost
    \/ \E now \in Instants : ResumeWithRunCost(now)
    \/ Settle

SpecValidate == Idle /\ [][NextValidate]_vars

\* calculateEffortBasedComponentCost on its own, with any component of
\* EffortComponents
NextEffort ==
    \/ pc = "idle" /\ \E c \in {"ATR", "QPlusPlus"}, component \in EffortComponents,
                          complexity \in {"Medium", "xLarge"} :
                        EffortCall(c, component, complexity)
    \/ Settle

SpecEffort == Idle /\ [][NextEffort]_vars

\* getDeploymentTypeMultiplier and getSupportLevelMultiplier on their own, and
\* the deployment line item, with any request of MultiplierRequests
NextMultiplier ==
    \/ pc = "idle" /\ \E c \in MultiplierCalculators, req \in MultiplierRequests :
                        GetDeploymentTypeMultiplierCall(c, req)
    \/ pc = "idle" /\ \E c \in MultiplierCalculators, req \in MultiplierRequests :
                        GetSupportLevelMultiplierCall(c, req)
    \/ pc = "idle" /\ \E req \in MultiplierRequests : DeploymentSetupCostCall(req)
    \/ Settle

SpecMultiplier == Idle /\ [][NextMultiplier]_vars

\* the CostingService: calculators are registered, looked up and listed, and
\* requests of ServiceRequests are dispatched to them
NextService ==
    \/ \E calculator \in CalculatorInstances : RegisterCalculator(calculator)
    \/ \E assetName \in AssetNames : GetCalculatorCall(assetName)
    \/ GetAvailableAssetNamesCall
    \/ \E dto \in ServiceRequests : CalculateAssetCost(dto)
    \/ ResumeWithBuildCost
    \/ \E now \in Instants : ResumeWithRunCost(now)
    \/ Settle

SpecService == Idle /\ [][NextService]_vars

\* two calls of calculateCosts on one calculator, with any requests of
\* ConcurrentRequests, interleaved at their awaits
NextConcurrent ==
    \/ pc = "idle" /\ parked = <<>>
          /\ \E c \in {"ATR", "QPlusPlus"}, req \in ConcurrentRequests :
                CalculateCosts(c, req) /\ UNCHANGED callee
    \/ pc = "idle" /\ parked # <<>>
          /\ \E req \in ConcurrentRequests : CalculateCosts(calc, req) /\ UNCHANGED callee
    \/ ResumeWithBuildCost
    \/ \E now \in Instants : ResumeWithRunCost(now)
    \/ Switch

SpecConcurrent == Idle /\ [][NextConcurrent]_vars

----------------------------------------------------------------------------
(* CostingController.calculateAssetCost: the response of the service is     *)
(* mapped to the DTO that is sent.                                           *)

\* CostingController.convertBreakdownArrayToRecord.  The record is the
\* sequence of its properties in the order they were created: assigning to a
\* property the record has replaces its value.  The description of a line
\* item, a text made of its other fields, is left out.
RECURSIVE convertBreakdownArrayToRecord(_)
convertBreakdownArrayToRecord(breakdownArray) ==
    IF breakdownArray = <<>> THEN <<>>
    ELSE MapSet(convertBreakdownArrayToRecord(
                    SubSeq(breakdownArray, 1, Len(breakdownArray) - 1)),
                breakdownArray[Len(breakdownArray)].costComponentName,
                [amount |-> breakdownArray[Len(breakdownArray)].amount])

\* CostingController.mapToDto
mapToDto(resp) ==
    [assetName |-> resp.assetName,
     buildCost |-> [total |-> resp.buildCost.total,
                    currency |-> resp.buildCost.currency,
                    breakdown |-> convertBreakdownArrayToRecord(resp.buildCost.breakdown)],
     runCost |-> [total |-> resp.runCost.total,
                  currency |-> resp.runCost.currency,
                  period |-> resp.runCost.period,
                  breakdown |-> convertBreakdownArrayToRecord(resp.runCost.breakdown)],
     estimationDate |-> resp.estimationDate]

\* the requests the controller is given: components every calculator costs,
\* components none costs, and a component with the name of the database
\* surcharge of QPlusPlus, with and without a database size
ControllerRequests ==
    {AssetCostRequest(n, "Medium", "cloud", Absent, TRUE, cs, TRUE, 1, db) :
        n \in Calculators,
        cs \in ComponentLists({"ignition", "Frontend", "Database Setup"},
                              ResourceAllocations({"India"}, {10000}),
                              MaxRequestSize),
        db \in {Absent, "large"}}

\* CostingController.calculateAssetCost after its await: the response of the
\* service is mapped and returned
MapToDto ==
    /\ pc = "done"
    /\ callee # <<>>
    /\ pc' = "returned"
    /\ trace' = Append(trace, "mapToDto")
    /\ ret' = <<mapToDto(response[1])>>
    /\ UNCHANGED <<calc, request, buildCostResult, runCostResult, response, failure,
                   calculators, callee, parked>>

\* the CostingController over the CostingService: one instance of each
\* calculator is registered, in any order, and requests of ControllerRequests
\* are dispatched, costed and mapped
NextController ==
    \/ \E calculator \in CalculatorInstances :
          calculator.id = 1 /\ RegisterCalculator(calculator)
    \/ \E dto \in ControllerRequests : CalculateAssetCost(dto)
    \/ ResumeWithBuildCost
    \/ \E now \in Instants : ResumeWithRunCost(now)
    \/ MapToDto
    \/ pc # "done" /\ Settle

SpecController == Idle /\ [][NextController]_vars

----------------------------------------------------------------------------
(* What the properties below speak of. *)

\* a call of calculateCosts is in progress or has ended
InCalculateCosts == trace # <<>> /\ trace[1] = "checkAssetName"
\* validateComponents, or calculateEffortBasedComponentCost, has returned from
\* a call of its own
ValidateReturned == pc = "returned" /\ trace = <<"validateComponents">>
EffortReturned == pc = "returned" /\ trace = <<"calculateEffortBasedComponentCost">>

Started(op) == \E i \in 1..Len(trace) : trace[i] = op
NothingComputed ==
    /\ ~Started("calculateBuildCost") /\ ~Started("calculateRunCost")
    /\ buildCostResult = <<>> /\ runCostResult = <<>> /\ response = <<>>

\* the exact value of the number x lies between lo / d and hi / d, for
\* integers 0 <= lo <= hi and 0 < d <= Base
ExactlyBetween(x, lo, hi, d) ==
    /\ ~x.nan
    /\ LET k == IF x.e < 0 THEN -x.e ELSE 0
           scaled == BigShl(BigMulSmall(x.m, d), x.e + k)
       IN /\ BigCmp(scaled, BigShl(BigOfInt(lo), k)) >= 0
          /\ BigCmp(scaled, BigShl(BigOfInt(hi), k)) <= 0

\* the sum of the first n allocations of a resource model, added in order
RECURSIVE AllocationSum(_, _)
AllocationSum(resourceModel, n) ==
    IF n = 0 THEN Zero
    ELSE FAdd(AllocationSum(resourceModel, n - 1), resourceModel[n].allocation)

\* the allocations of a component sum to a number whose exact value differs
\* from 100 by at most 0.01
SumsTo100(component) ==
    ExactlyBetween(AllocationSum(component.resourceModel, Len(component.resourceModel)),
                   9999, 10001, 100)

\* the components with a non-empty resourceModel whose allocations do not sum
\* to 100 within 0.01, in order, each with its name and its sum
RECURSIVE OffSumComponents(_)
OffSumComponents(components) ==
    IF components = <<>> THEN <<>>
    ELSE (IF Head(components).resourceModel # <<>> /\ ~SumsTo100(Head(components))
          THEN <<[name |-> Head(components).name,
                  sum |-> AllocationSum(Head(components).resourceModel,
                                        Len(Head(components).resourceModel))]>>
          ELSE <<>>)
         \o OffSumComponents(Tail(components))

IsAllocationError(e) == e.msg = "resource allocations should sum to 100%"
\* the allocation errors of a list of errors, in order, each as name and sum
AllocationErrors(errors) ==
    LET picked == SelectSeq(errors, IsAllocationError)
    IN [i \in 1..Len(picked) |-> [name |-> picked[i].name, sum |-> picked[i].sum]]

DistinctNames(components) ==
    \A i, j \in 1..Len(components) :
        i # j => components[i].name # components[j].name

\* a list of components that breaks no rule
WellFormed(hasComponents, components) ==
    /\ hasComponents
    /\ components # <<>>
    /\ DistinctNames(components)
    /\ \A i \in 1..Len(components) :
          /\ components[i].name # ""
          /\ components[i].resourceModel # <<>>
          /\ SumsTo100(components[i])

\* every violation of a list of components, as the text of its error and the
\* component name the text carries
Violations(hasComponents, components) ==
    IF ~hasComponents \/ components = <<>>
    THEN {<<"No components specified", "">>}
    ELSE (IF DistinctNames(components) THEN {}
          ELSE {<<"Duplicate component names found", "">>})
         \cup {<<"Component missing name", "">> :
                 i \in {j \in 1..Len(components) : components[j].name = ""}}
         \cup {<<"has no resource allocation",
                 IF components[i].name = "" THEN "unnamed" ELSE components[i].name>> :
                 i \in {j \in 1..Len(components) : components[j].resourceModel = <<>>}}
         \cup {<<"resource allocations should sum to 100%", components[i].name>> :
                 i \in {j \in 1..Len(components) :
                          /\ components[j].resourceModel # <<>>
                          /\ ~SumsTo100(components[j])}}

Reported(errors) == {<<errors[i].msg, errors[i].name>> : i \in 1..Len(errors)}

\* the amounts of the first n entries of a breakdown, added in order
RECURSIVE SumOfAmounts(_, _)
SumOfAmounts(breakdown, n) ==
    IF n = 0 THEN Zero
    ELSE FAdd(SumOfAmounts(breakdown, n - 1), breakdown[n].amount)

\* the same sum in whole cents, exactly
RECURSIVE CentsOfAmounts(_, _)
CentsOfAmounts(breakdown, n) ==
    IF n = 0 THEN 0
    ELSE CentsOfAmounts(breakdown, n - 1) + ToFixed2(breakdown[n].amount)

TotalIsSum(cost) ==
    /\ cost.total = SumOfAmounts(cost.breakdown, Len(cost.breakdown))
    /\ \A i \in 1..Len(cost.breakdown) :
          cost.breakdown[i].isError => cost.breakdown[i].amount = Zero
    /\ (\A i \in 1..Len(cost.breakdown) : ~cost.breakdown[i].amount.nan)
          => cost.total = FromRatio(CentsOfAmounts(cost.breakdown, Len(cost.breakdown)), 100)

----------------------------------------------------------------------------
(* Properties of calculateCosts (specification Spec). *)

\* C1: in every response of every calculator, buildCost.total is the sum of
\* the amounts of buildCost.breakdown and runCost.total the sum of the amounts
\* of runCost.breakdown, an error entry counting 0; the same holds of the two
\* results before the response is assembled.
C1_TotalIsSumOfBreakdown ==
    /\ buildCostResult # <<>> => TotalIsSum(buildCostResult[1])
    /\ runCostResult # <<>> => TotalIsSum(runCostResult[1])
    /\ response # <<>> => /\ TotalIsSum(response[1].buildCost)
                          /\ TotalIsSum(response[1].runCost)

\* a response of the ATR calculator whose build breakdown holds a costed
\* component and an error entry, and whose run breakdown holds three items
C1_Witness ==
    /\ pc = "done" /\ calc = "ATR"
    /\ Len(response[1].buildCost.breakdown) = 2
    /\ \E i, j \in 1..2 : /\ response[1].buildCost.breakdown[i].isError
                          /\ response[1].buildCost.breakdown[j].amount # Zero
    /\ Len(response[1].runCost.breakdown) = 3

\* C5: a request whose assetName is not the calculator's is rejected with the
\* name-mismatch error, whatever its components are, with nothing but the name
\* check started: no validation, no build cost, no run cost.
C5_NameMismatchRejectedFirst ==
    (InCalculateCosts /\ request[1].assetName # getAssetName(calc)) =>
        /\ pc = "failed"
        /\ failure = <<[kind |-> "Invalid asset name", error |-> NoError,
                        errors |-> <<>>]>>
        /\ trace = <<"checkAssetName">>
        /\ NothingComputed

\* a request with a wrong name and components that validation would refuse
C5_Witness ==
    /\ InCalculateCosts /\ pc = "failed"
    /\ request[1].assetName # getAssetName(calc)
    /\ ~WellFormed(request[1].hasComponents, request[1].assetComponents)

\* C6: a request in which two components share a name is rejected, and neither
\* cost is computed; when its assetName is the calculator's, the rejection is
\* the validation error and names the duplicates.
C6_DuplicateNamesRejected ==
    (InCalculateCosts /\ ~DistinctNames(request[1].assetComponents)) =>
        /\ pc = "failed"
        /\ NothingComputed
        /\ request[1].assetName = getAssetName(calc) =>
              /\ failure[1].kind = "Invalid request components"
              /\ <<"Duplicate component names found", "">> \in Reported(failure[1].errors)

\* two components of one name, each with a resourceModel that sums to 100:
\* the duplicate is the only error
C6_Witness ==
    /\ InCalculateCosts /\ pc = "failed"
    /\ Len(request[1].assetComponents) = 2
    /\ ~DistinctNames(request[1].assetComponents)
    /\ \A i \in 1..2 : /\ request[1].assetComponents[i].resourceModel # <<>>
                       /\ SumsTo100(request[1].assetComponents[i])
    /\ Reported(failure[1].errors) = {<<"Duplicate component names found", "">>}

\* C7: a request whose assetComponents is absent or empty fails, and neither
\* cost is computed; when its assetName is the calculator's, the failure is the
\* validation error with the one message "No components specified".
C7_NoComponentsRejected ==
    (InCalculateCosts /\ (~request[1].hasComponents \/ request[1].assetComponents = <<>>)) =>
        /\ pc = "failed"
        /\ NothingComputed
        /\ request[1].assetName = getAssetName(calc) =>
              /\ failure[1].kind = "Invalid request components"
              /\ Len(failure[1].errors) = 1
              /\ failure[1].errors[1].msg = "No components specified"
              /\ trace = <<"checkAssetName", "validateComponents">>

\* a request without assetComponents, under the right name
C7_Witness ==
    /\ InCalculateCosts /\ pc = "failed"
    /\ ~request[1].hasComponents
    /\ request[1].assetName = getAssetName(calc)

\* C9: calculateBuildCost is started only once the name check and the
\* validation have passed; calculateRunCost is started only once
\* calculateBuildCost has returned its result; a response exists only once both
\* have; and when calculateBuildCost fails, calculateRunCost is not started and
\* there is no response.
C9_BuildThenRun ==
    /\ Started("calculateBuildCost") =>
          /\ SubSeq(trace, 1, 3) = <<"checkAssetName", "validateComponents",
                                     "calculateBuildCost">>
          /\ request[1].assetName = getAssetName(calc)
          /\ WellFormed(request[1].hasComponents, request[1].assetComponents)
    /\ Started("calculateRunCost") =>
          /\ SubSeq(trace, 1, 4) = <<"checkAssetName", "validateComponents",
                                     "calculateBuildCost", "calculateRunCost">>
          /\ buildCostResult # <<>>
    /\ runCostResult # <<>> => Started("calculateRunCost")
    /\ response # <<>> => buildCostResult # <<>> /\ runCostResult # <<>>
    /\ (pc = "failed" /\ failure[1].kind = "calculateBuildCost threw") =>
          /\ ~Started("calculateRunCost")
          /\ buildCostResult = <<>> /\ runCostResult = <<>> /\ response = <<>>

\* calculateBuildCost has failed
C9_Witness ==
    /\ InCalculateCosts /\ pc = "failed"
    /\ failure[1].kind = "calculateBuildCost threw"

----------------------------------------------------------------------------
(* Properties of validateComponents (specification SpecValidate). *)

\* C2: validateComponents reports an allocation error for exactly the
\* components with a non-empty resourceModel whose allocation sum (the number
\* the code adds up) differs from 100 by more than 0.01, and the error carries
\* the component's name and that sum; calculateCosts rejects a request with
\* such a component, with the same errors.
C2_AllocationTolerance ==
    /\ (ValidateReturned /\ request[1].hasComponents /\ request[1].assetComponents # <<>>) =>
          AllocationErrors(ret[1].errors) = OffSumComponents(request[1].assetComponents)
    /\ (InCalculateCosts /\ request[1].assetName = getAssetName(calc)
          /\ OffSumComponents(request[1].assetComponents) # <<>>) =>
          /\ pc = "failed"
          /\ failure[1].kind = "Invalid request components"
          /\ AllocationErrors(failure[1].errors)
                = OffSumComponents(request[1].assetComponents)
          /\ NothingComputed

\* calculateCosts has rejected a component whose allocations sum to 100.02 with
\* an error that names it and the sum
C2_Witness ==
    /\ InCalculateCosts /\ pc = "failed"
    /\ [name |-> "ignition", sum |-> FromRatio(10002, 100)]
          \in {AllocationErrors(failure[1].errors)[i] :
                 i \in 1..Len(AllocationErrors(failure[1].errors))}

C4_ThrowsUnlessSumIs100 ==
    (ValidateReturned /\ Len(request[1].assetComponents) = 1
       /\ request[1].assetComponents[1].name # "") =>
        LET resourceModel == request[1].assetComponents[1].resourceModel
            sum == AllocationSum(resourceModel, Len(resourceModel))
        IN /\ sum \in {FromInt(90), FromInt(110)} => ret[1].threw
           /\ (Len(resourceModel) = 3 /\ sum = FromInt(100)) => ~ret[1].threw

\* validateComponents has returned, not thrown, for allocations that sum to 90
C4_Witness ==
    /\ ValidateReturned
    /\ Len(request[1].assetComponents) = 1
    /\ LET resourceModel == request[1].assetComponents[1].resourceModel
       IN AllocationSum(resourceModel, Len(resourceModel)) = FromInt(90)
    /\ ~ret[1].threw
    /\ Len(ret[1].errors) = 1

\* C8: when calculateCosts fails on the components, its one error carries
\* every violation of the request: the duplicate names, each missing name,
\* each empty resourceModel and each allocation sum that is off; so does the
\* list validateComponents returns.
C8_EveryViolationReported ==
    /\ (InCalculateCosts /\ pc = "failed"
          /\ failure[1].kind = "Invalid request components") =>
          /\ Len(failure) = 1
          /\ Reported(failure[1].errors)
                = Violations(request[1].hasComponents, request[1].assetComponents)
    /\ ValidateReturned =>
          Reported(ret[1].errors)
             = Violations(request[1].hasComponents, request[1].assetComponents)

\* calculateCosts has failed with a duplicate name, an empty resourceModel and
\* an allocation sum that is off, the last two in different components
C8_Witness ==
    /\ InCalculateCosts /\ pc = "failed"
    /\ failure[1].kind = "Invalid request components"
    /\ {"Duplicate component names found", "has no resource allocation",
        "resource allocations should sum to 100%"}
          \subseteq {failure[1].errors[i].msg : i \in 1..Len(failure[1].errors)}
    /\ Len(failure[1].errors) >= 3

----------------------------------------------------------------------------
(* Properties of calculateEffortBasedComponentCost (specification          *)
(* SpecEffort).                                                            *)

\* the component of the call, and the cost the call returned
EffortComponent == request[1].assetComponents[1]
EffortCost == Value(ret[1])

\* effortsHrForLocation * blendRate of the i-th location, before it is rounded
UnroundedSubAmount(i) ==
    FMul(EffortCost.effortBreakdown[i].effortHours,
         FromInt(getBlendRates(calc)[EffortComponent.resourceModel[i].location]
                                    [request[1].complexity]))

\* the unrounded amounts of the first n locations, added in order
RECURSIVE SumOfUnrounded(_)
SumOfUnrounded(n) ==
    IF n = 0 THEN Zero ELSE FAdd(SumOfUnrounded(n - 1), UnroundedSubAmount(n))

\* the effortAmount values of the first n locations, added in order
RECURSIVE SumOfEffortAmounts(_)
SumOfEffortAmounts(n) ==
    IF n = 0 THEN Zero
    ELSE FAdd(SumOfEffortAmounts(n - 1), EffortCost.effortBreakdown[n].effortAmount)

\* amount is a whole number n of cents, and the exact value of x lies from
\* n - 1/2 cents up to, but not at, n + 1/2 cents
IsRoundingOf(amount, x) ==
    IF x.nan THEN amount.nan
    ELSE /\ ~amount.nan
         /\ LET n == ToFixed2(amount)
            IN /\ amount = FromRatio(n, 100)
               /\ ExactlyBetween(x, IF n = 0 THEN 0 ELSE 2 * n - 1, 2 * n + 1, 200)
               /\ ~ExactlyBetween(x, 2 * n + 1, 2 * n + 1, 200)

\* The amount of the i-th location, computed in decimal arithmetic from the
\* decimal literals of the allocation and of the effort hours, ends in half a
\* cent: in millionths of a dollar it leaves 5000 when divided by 10000.
EndsInHalfCent(i) ==
    LET resource == EffortComponent.resourceModel[i]
        hours == Value(getEffortHours(calc, EffortComponent.name, request[1].complexity))
        rate == getBlendRates(calc)[resource.location][request[1].complexity]
        workingHours == Value(getWorkingHoursPerLocation(resource.location))
    IN /\ resource.location \in DOMAIN hours
       /\ (((((ToFixed2(resource.allocation) * workingHours) % 10000)
               * (ToFixed2(hours[resource.location]) % 10000)) % 10000)
             * rate) % 10000 = 5000

\* C10: the cost calculateEffortBasedComponentCost returns has one
\* effortBreakdown entry per location; each effortAmount is the location's
\* unrounded amount rounded to a whole number of cents; and the component's
\* amount is the sum of the effortAmount values.
C10_RoundedBeforeSummed ==
    (EffortReturned /\ ~ret[1].threw) =>
        /\ Len(EffortCost.effortBreakdown) = Len(EffortComponent.resourceModel)
        /\ \A i \in 1..Len(EffortCost.effortBreakdown) :
              IsRoundingOf(EffortCost.effortBreakdown[i].effortAmount,
                           UnroundedSubAmount(i))
        /\ EffortCost.amount = SumOfEffortAmounts(Len(EffortCost.effortBreakdown))

\* two locations whose amounts both end in half a cent, and a component amount
\* that is not the rounding of the unrounded sum
C10_Witness ==
    /\ EffortReturned /\ ~ret[1].threw
    /\ Len(EffortComponent.resourceModel) = 2
    /\ EndsInHalfCent(1) /\ EndsInHalfCent(2)
    /\ EffortCost.amount # RoundToCents(SumOfUnrounded(2))

\* C10 as it was stated: whenever the amounts of two locations both end in
\* half a cent, the component's amount, the sum of the rounded amounts,
\* differs from the rounding of the unrounded sum.
C10_HalfCentsAlwaysDiffer ==
    (EffortReturned /\ ~ret[1].threw /\ Len(EffortComponent.resourceModel) = 2
       /\ EndsInHalfCent(1) /\ EndsInHalfCent(2)) =>
        /\ EffortCost.amount = SumOfEffortAmounts(2)
        /\ EffortCost.amount # RoundToCents(SumOfUnrounded(2))

\* the blend rates, the complexity and the effort hours of the call
EffortBlendRates == getBlendRates(calc)
EffortComplexity == request[1].complexity
EffortHoursOfCall == Value(getEffortHours(calc, EffortComponent.name, EffortComplexity))

\* blendRates[location][complexity] is present
HasBlendRate(location) ==
    /\ location \in DOMAIN EffortBlendRates
    /\ EffortComplexity \in DOMAIN EffortBlendRates[location]

\* the working hours per day of a location that has them
WorkingDay(location) == IF location = "Australia" THEN 8 ELSE 9

EffortFailsAt(i) ==
    \/ ~HasBlendRate(EffortComponent.resourceModel[i].location)
    \/ EffortComponent.resourceModel[i].location \notin {"Australia", "India"}

\* the error the loop throws at a location it fails at
EffortErrorAt(location) ==
    IF ~HasBlendRate(location)
    THEN Error("Blend rate not found for location at complexity", location,
               EffortComplexity)
    ELSE Error("Unknown location", location, "")

----------------------------------------------------------------------------
(* Properties of the build and run costs within calculateCosts             *)
(* (specification Spec).                                                   *)

\* the components of the request, and the breakdown calculateBuildCost returned
Components == request[1].assetComponents
BuildBreakdown == buildCostResult[1].breakdown

\* the request has the calculator's name and components that pass validation
Admitted ==
    /\ InCalculateCosts
    /\ request[1].assetName = getAssetName(calc)
    /\ WellFormed(request[1].hasComponents, request[1].assetComponents)

\* the effort-hours table of the calculator, by component and complexity
EffortHoursTable ==
    IF calc = "ATR" THEN AtrEffortHoursByComponent ELSE QppEffortHoursDb

\* the complexity the calculator costs the components at
CostedComplexity ==
    IF calc = "QPlusPlus" /\ Falsy(request[1].complexity) THEN "Medium"
    ELSE request[1].complexity

\* the location has a blend rate at the costed complexity, and working hours
RateAndDayKnown(location) ==
    /\ location \in DOMAIN getBlendRates(calc)
    /\ CostedComplexity \in DOMAIN getBlendRates(calc)[location]
    /\ location \in {"Australia", "India"}

\* the table has an entry for the component at the costed complexity
HasEffortHours(component) ==
    /\ component.name \in DOMAIN EffortHoursTable
    /\ CostedComplexity \in DOMAIN EffortHoursTable[component.name]

\* the entry lacks a location of the component's resourceModel
LacksEffortHours(component) ==
    /\ HasEffortHours(component)
    /\ \E i \in 1..Len(component.resourceModel) :
          component.resourceModel[i].location
             \notin DOMAIN EffortHoursTable[component.name][CostedComplexity]

\* a component the effort formula has everything for
Costable(component) ==
    /\ HasEffortHours(component)
    /\ \A i \in 1..Len(component.resourceModel) :
          /\ RateAndDayKnown(component.resourceModel[i].location)
          /\ component.resourceModel[i].location
                \in DOMAIN EffortHoursTable[component.name][CostedComplexity]

\* C12: of two components, one with a location missing from the effort-hours
\* table for its name and complexity and one the formula has everything for,
\* the first has an entry with isError true and amount 0, the second a valid
\* entry, and the build total is the valid entry's amount.
C12_MissingEffortHoursIsErrorEntry ==
    (buildCostResult # <<>> /\ calc \in {"ATR", "QPlusPlus"} /\ Len(Components) = 2) =>
        \A i, j \in 1..2 :
            (i # j /\ LacksEffortHours(Components[i]) /\ Costable(Components[j])) =>
                /\ BuildBreakdown[i].isError
                /\ BuildBreakdown[i].amount = Zero
                /\ ~BuildBreakdown[j].isError
                /\ buildCostResult[1].total = BuildBreakdown[j].amount

\* the QPlusPlus calculator has answered a request whose second component is
\* in Australia, which its effort-hours table lacks: the entry is not an
\* error, its amount is NaN, and so is the build total
C12_Witness ==
    /\ pc = "done" /\ calc = "QPlusPlus"
    /\ Len(Components) = 2
    /\ Costable(Components[1])
    /\ LacksEffortHours(Components[2])
    /\ Components[2].resourceModel[1].location = "Australia"
    /\ ~response[1].buildCost.breakdown[2].isError
    /\ response[1].buildCost.breakdown[2].amount = NaN
    /\ response[1].buildCost.total = NaN

\* the error the effort formula fails with for a component, if it fails: an
\* unknown component name, or the first location without a blend rate or
\* without working hours
FormulaFailure(component) ==
    IF component.name \notin DOMAIN EffortHoursTable
    THEN <<Error(IF calc = "ATR" THEN "Effort hours not found for component"
                 ELSE "No effort hours found for component", component.name, "")>>
    ELSE LET Failing(i) == ~RateAndDayKnown(component.resourceModel[i].location)
             ErrorAt(location) ==
                 IF location \in DOMAIN getBlendRates(calc)
                 THEN Error("Unknown location", location, "")
                 ELSE Error("Blend rate not found for location at complexity",
                            location, CostedComplexity)
         IN IF \A i \in 1..Len(component.resourceModel) : ~Failing(i) THEN <<>>
            ELSE <<ErrorAt(component.resourceModel[
                     CHOOSE i \in 1..Len(component.resourceModel) :
                        Failing(i) /\ \A j \in 1..(i - 1) : ~Failing(j)].location)>>

\* the list without its i-th element
Without(list, i) == SubSeq(list, 1, i - 1) \o SubSeq(list, i + 1, Len(list))

\* the breakdown calculateBuildCost returns for the request without its i-th
\* component
BreakdownWithout(i) ==
    Value(calculateBuildCost(calc,
            [request[1] EXCEPT !.assetComponents = Without(@, i)])).breakdown

\* C14: the build cost of ATR and of QPlusPlus, at a recognized complexity,
\* has one effort entry for each component of the request, in request order
\* (followed, for QPlusPlus, by the database setup item when there is one);
\* a component the effort formula fails for (unknown name, missing blend
\* rate, unknown location) has an entry with isError true, amount 0 and the
\* failure as its errorMessage, and every other entry is what it is for the
\* request without that component.
C14_FailureBecomesErrorEntry ==
    (buildCostResult # <<>> /\ calc \in {"ATR", "QPlusPlus"}
       /\ CostedComplexity \in ComplexityLevels) =>
        /\ Len(BuildBreakdown) = Len(Components)
              + (IF calc = "QPlusPlus" /\ ~Falsy(request[1].specificFields.databaseSize)
                 THEN 1 ELSE 0)
        /\ \A i \in 1..Len(Components) :
              /\ BuildBreakdown[i].costComponentName = Components[i].name
              /\ BuildBreakdown[i].isError <=> FormulaFailure(Components[i]) # <<>>
              /\ FormulaFailure(Components[i]) # <<>> =>
                    /\ BuildBreakdown[i].amount = Zero
                    /\ BuildBreakdown[i].errorMessage = FormulaFailure(Components[i])[1]
                    /\ Without(BuildBreakdown, i) = BreakdownWithout(i)

\* QPlusPlus has answered a request whose first component is in US, a
\* location without working hours, and whose second component costs
\* 9 * 50 * 15 = 6750
C14_Witness ==
    /\ pc = "done" /\ calc = "QPlusPlus"
    /\ Len(Components) = 2
    /\ Components[1].resourceModel[1].location = "US"
    /\ response[1].buildCost.breakdown[1].isError
    /\ response[1].buildCost.breakdown[1].errorMessage = Error("Unknown location", "US", "")
    /\ response[1].buildCost.breakdown[2].amount = FromInt(6750)
    /\ response[1].buildCost.total = FromInt(6750)

C16_AtrLicenseCountMandatory ==
    (InCalculateCosts /\ calc = "ATR"
       /\ (~request[1].specificFields.hasLicenseCount
           \/ request[1].specificFields.licenseCount <= 0)) =>
        /\ runCostResult = <<>> /\ response = <<>>
        /\ pc \in {"failed", "awaitBuild"}
        /\ Started("calculateRunCost") =>
              /\ pc = "failed"
              /\ failure[1].kind = "calculateRunCost threw"
              /\ failure[1].error =
                    Error("License count must be specified and at least 1 for ATR run cost calculation",
                          "", "")
              /\ buildCostResult # <<>>

\* calculateRunCost of ATR has failed on a licenseCount of zero after a build
\* cost with a costed component
C16_Witness ==
    /\ InCalculateCosts /\ calc = "ATR" /\ pc = "failed"
    /\ request[1].specificFields.hasLicenseCount
    /\ request[1].specificFields.licenseCount = 0
    /\ failure[1].kind = "calculateRunCost threw"
    /\ buildCostResult # <<>>
    /\ buildCostResult[1].total # Zero

\* the result of calculateBuildCost for the request with complexity Medium
BuildCostAtMedium ==
    calculateBuildCost(calc, [request[1] EXCEPT !.complexity = "Medium"])

\* C17: for an admitted request to the QPlusPlus calculator that has no
\* complexity, calculateBuildCost does not fail, and its breakdown and total
\* are those of the same request with complexity Medium.
C17_QppDefaultsToMedium ==
    (Admitted /\ calc = "QPlusPlus" /\ request[1].complexity \in {Absent, ""}) =>
        /\ buildCostResult # <<>>
        /\ ~BuildCostAtMedium.threw
        /\ buildCostResult[1] = Value(BuildCostAtMedium)

\* QPlusPlus has costed Frontend in India, without a complexity, at the
\* Medium hours and rate: 9 * 45 * 15 = 6075
C17_Witness ==
    /\ Admitted /\ calc = "QPlusPlus" /\ request[1].complexity = Absent
    /\ pc = "done"
    /\ Components[1].name = "Frontend"
    /\ response[1].buildCost.breakdown[1].amount = FromInt(6075)

\* the request's complexity is given and is not a ComplexityLevel
UnrecognizedComplexity ==
    request[1].complexity \notin ComplexityLevels \cup {Absent, ""}

\* ATR fails on a complexity it does not recognize
AtrRefusesUnrecognizedComplexity ==
    (Admitted /\ calc = "ATR" /\ UnrecognizedComplexity) =>
        /\ pc = "failed"
        /\ failure[1].error = Error("Invalid complexity", request[1].complexity, "")

----------------------------------------------------------------------------
(* Properties of the multipliers (SpecMultiplier). *)

\* a call of op on its own has returned
ReturnedFrom(op) == pc = "returned" /\ trace = <<op>>

\* the deployment line item has been computed
DeploymentSetupCostReturned ==
    pc = "returned" /\ trace = <<"getDeploymentTypeMultiplier", "deployment">>

\* the request of the call with another deployment type
WithDeploymentType(deploymentType) ==
    [request[1] EXCEPT !.commonFields.deploymentType = deploymentType]

\* the deployment-type multipliers as the documentation and the unit tests
\* give them, in tenths
DocumentedDeploymentTypeMultiplier(deploymentType) ==
    CASE deploymentType = "onPremise" -> 12
      [] deploymentType = "cloud" -> 10
      [] deploymentType = "hybrid" -> 13
      [] deploymentType = "managed" -> 15
      [] OTHER -> 10

\* C19: the deployment-type multiplier is 1.2 for onPremise, 1.0 for cloud,
\* 1.3 for hybrid, 1.5 for managed and 1.0 for any unrecognized or absent
\* deployment type, and the deployment line item of a 'managed' request is 1.5
\* times the line item of the same request with 'cloud'.
C19_DeploymentTypeMultiplier ==
    /\ ReturnedFrom("getDeploymentTypeMultiplier") =>
          ret[1] = Tenths(DocumentedDeploymentTypeMultiplier(
                              request[1].commonFields.deploymentType))
    /\ (DeploymentSetupCostReturned
        /\ request[1].commonFields.deploymentType = "managed") =>
          ret[1] = FMul(Tenths(15), DeploymentSetupCost(WithDeploymentType("cloud")))

\* The deployment line item of a 'managed' request has been computed with the
\* multiplier of the BaseCalculator: it is 3000, where the line item of the
\* same request with 'cloud' is 1600 (the multiplier of 'cloud' being 0.8).
C19_Witness ==
    /\ DeploymentSetupCostReturned
    /\ request[1].commonFields.deploymentType = "managed"
    /\ ret[1] = Dollars(3000)
    /\ getDeploymentTypeMultiplier("BaseCalculator", WithDeploymentType("cloud")) = FromRatio(8, 10)
    /\ DeploymentSetupCost(WithDeploymentType("cloud")) = Dollars(1600)

\* the support-level multipliers as the unit tests give them, in tenths
DocumentedSupportLevelMultiplier(supportLevel) ==
    CASE supportLevel = "basic" -> 10
      [] supportLevel = "standard" -> 12
      [] supportLevel = "premium" -> 15
      [] OTHER -> 10

\* C20: the support-level multiplier is 1.0 for basic, 1.2 for standard and
\* 1.5 for premium, and 1.0 when the support level is absent or unrecognized.
C20_SupportLevelMultiplier ==
    ReturnedFrom("getSupportLevelMultiplier") =>
        ret[1] = Tenths(DocumentedSupportLevelMultiplier(
                            request[1].commonFields.supportLevel))

\* The TestCalculator has answered 1.2 for a request without a support level,
\* and the BaseCalculator would answer 1.5 for 'standard' and 2.0 for
\* 'premium'.
C20_Witness ==
    /\ ReturnedFrom("getSupportLevelMultiplier")
    /\ calc = "TestCalculator"
    /\ request[1].commonFields.supportLevel = Absent
    /\ ret[1] = FromRatio(12, 10)
    /\ getSupportLevelMultiplier("BaseCalculator",
           [request[1] EXCEPT !.commonFields.supportLevel = "standard"]) = FromRatio(15, 10)
    /\ getSupportLevelMultiplier("BaseCalculator",
           [request[1] EXCEPT !.commonFields.supportLevel = "premium"]) = FromInt(2)

----------------------------------------------------------------------------
(* Properties of the documented formula (SpecEffort). *)

\* (allocation / 100) * blend rate * effort hours of the i-th location of the
\* call, to the cent
DocumentedLocationCost(i) ==
    RoundToCents(
        FMul(FMul(FDivInt(EffortComponent.resourceModel[i].allocation, 100),
                  FromInt(EffortBlendRates[EffortComponent.resourceModel[i].location]
                                          [EffortComplexity])),
             EffortHoursOfCall[EffortComponent.resourceModel[i].location]))

\* every location of the call has effort hours
EffortHoursKnown ==
    \A i \in 1..Len(EffortComponent.resourceModel) :
        EffortComponent.resourceModel[i].location \in DOMAIN EffortHoursOfCall

\* C21: the cost of a component is the sum over its resourceModel locations of
\* (allocation / 100) * blend rate * effort hours, with no other factor: the
\* cost of India at 10% with blend rate 15 and effort hours 32.8 is 49.20.
C21_CostHasNoOtherFactor ==
    (EffortReturned /\ ~ret[1].threw /\ EffortHoursKnown) =>
        /\ \A i \in 1..Len(EffortCost.effortBreakdown) :
              EffortCost.effortBreakdown[i].effortAmount = DocumentedLocationCost(i)
        /\ EffortCost.amount = SumOfEffortAmounts(Len(EffortCost.effortBreakdown))

\* ignition at Medium for ATR (effort hours 32.8, blend rate 15), India at
\* 10%: the documented cost is 49.20 and the cost returned is 9 times that,
\* 442.80
C21_Witness ==
    /\ EffortReturned /\ ~ret[1].threw
    /\ calc = "ATR" /\ EffortComponent.name = "ignition" /\ EffortComplexity = "Medium"
    /\ EffortComponent.resourceModel
          = <<[location |-> "India", allocation |-> FromInt(10)]>>
    /\ EffortHoursOfCall["India"] = FromRatio(328, 10)
    /\ DocumentedLocationCost(1) = FromRatio(4920, 100)
    /\ EffortCost.effortBreakdown[1].effortAmount = FromRatio(44280, 100)
    /\ EffortCost.amount = FromRatio(44280, 100)

----------------------------------------------------------------------------
(* Properties of the complexity of a request (Spec). *)

\* the common complexity terms the documentation names
CommonComplexityTerms == {"low", "medium", "high"}

\* calculateBuildCost of the request of the call at another complexity
BuildCostAtLevel(level) ==
    calculateBuildCost(calc, [request[1] EXCEPT !.complexity = level])

\* C22: a request whose complexity is a common term such as 'low', 'medium'
\* or 'high' is costed at one of the five standardized levels: its build cost
\* is not rejected, and is the build cost of the same request at that level.
C22_CommonTermsAreMapped ==
    (/\ Admitted /\ calc \in {"ATR", "QPlusPlus"}
     /\ request[1].complexity \in CommonComplexityTerms) =>
        /\ buildCostResult # <<>>
        /\ \E level \in ComplexityLevels :
              /\ ~BuildCostAtLevel(level).threw
              /\ buildCostResult[1] = Value(BuildCostAtLevel(level))

\* ATR has rejected a request of complexity 'medium' for ignition in India,
\* which it costs at Medium
C22_Witness ==
    /\ Admitted /\ calc = "ATR" /\ pc = "failed"
    /\ request[1].complexity = "medium"
    /\ Components[1].name = "ignition"
    /\ Components[1].resourceModel[1].location = "India"
    /\ failure[1].error = Error("Invalid complexity", "medium", "")
    /\ ~BuildCostAtLevel("Medium").threw
    /\ ~Value(BuildCostAtLevel("Medium")).breakdown[1].isError

----------------------------------------------------------------------------
(* Properties of the response of calculateCosts (Spec). *)

\* C23: every response calculateCosts returns has currency USD in buildCost
\* and in runCost, has the asset name of the calculator, which is the asset
\* name of the request, and carries the total and breakdown that
\* calculateBuildCost returns for the request and the total, period and
\* breakdown that calculateRunCost returns for it.
C23_ResponseCarriesResults ==
    response # <<>> =>
        /\ pc = "done"
        /\ response[1].buildCost.currency = "USD"
        /\ response[1].runCost.currency = "USD"
        /\ response[1].assetName = getAssetName(calc)
        /\ response[1].assetName = request[1].assetName
        /\ response[1].assetName \in Calculators
        /\ ~calculateBuildCost(calc, request[1]).threw
        /\ ~calculateRunCost(calc, request[1]).threw
        /\ response[1].buildCost.total = Value(calculateBuildCost(calc, request[1])).total
        /\ response[1].buildCost.breakdown
              = Value(calculateBuildCost(calc, request[1])).breakdown
        /\ response[1].runCost.total = Value(calculateRunCost(calc, request[1])).total
        /\ response[1].runCost.period = Value(calculateRunCost(calc, request[1])).period
        /\ response[1].runCost.breakdown
              = Value(calculateRunCost(calc, request[1])).breakdown

\* ATR has answered a request of two licenses on premise: a build cost of
\* ignition in India and a monthly run cost of 1500, which differ
C23_Witness ==
    /\ pc = "done" /\ calc = "ATR"
    /\ response[1].assetName = "ATR"
    /\ response[1].runCost.period = "monthly"
    /\ response[1].runCost.total = Dollars(1500)
    /\ Len(response[1].buildCost.breakdown) = 1
    /\ response[1].buildCost.total # response[1].runCost.total
    /\ response[1].buildCost.total # Zero

----------------------------------------------------------------------------
(* Properties of the CostingService (SpecService). *)

\* a calculator is registered under the name
Registered(assetName) == \E i \in 1..Len(calculators) : calculators[i].key = assetName

\* the calculator registered under a name that has one
RegisteredCalculator(assetName) ==
    calculators[CHOOSE i \in 1..Len(calculators) : calculators[i].key = assetName].value

\* a call of getCalculator has ended
GetCalculatorEnded == trace = <<"getCalculator">>

\* a call of calculateAssetCost has begun
InCalculateAssetCost ==
    \/ trace = <<"calculateAssetCost", "getCalculator">>
    \/ callee # <<>>

\* no calculator has been called
NoCalculatorInvoked ==
    /\ calc = "" /\ callee = <<>>
    /\ buildCostResult = <<>> /\ runCostResult = <<>> /\ response = <<>>

\* the call failed with the NotFoundException of the name it was given
FailedNotFound ==
    /\ pc = "failed"
    /\ failure = <<[kind |-> "NotFoundException",
                    error |-> Error("No calculator found for asset name",
                                    request[1].assetName, ""),
                    errors |-> <<>>]>>

\* C24: getCalculator and calculateAssetCost fail with a NotFoundException
\* for a name no calculator is registered under, and no calculator is called;
\* for a registered name getCalculator returns the registered calculator, and
\* calculateAssetCost calls calculateCosts on that calculator and on no other.
C24_DispatchToRegisteredCalculator ==
    /\ GetCalculatorEnded =>
          /\ NoCalculatorInvoked
          /\ IF Registered(request[1].assetName)
             THEN /\ pc = "returned"
                  /\ ret = <<RegisteredCalculator(request[1].assetName)>>
                  /\ ret[1].assetName = request[1].assetName
             ELSE FailedNotFound /\ ret = <<>>
    /\ InCalculateAssetCost =>
          IF Registered(request[1].assetName)
          THEN /\ callee = <<RegisteredCalculator(request[1].assetName)>>
               /\ calc = request[1].assetName
               /\ Started("checkAssetName")
               /\ pc = "failed" => failure[1].kind # "NotFoundException"
          ELSE FailedNotFound /\ NoCalculatorInvoked /\ ~Started("checkAssetName")

\* With the ATR and QPlusPlus calculators registered, calculateAssetCost of a
\* request for 'UNKNOWN' has failed and called neither.
C24_Witness ==
    /\ trace = <<"calculateAssetCost", "getCalculator">>
    /\ request[1].assetName = "UNKNOWN"
    /\ MapKeys(calculators) = <<"ATR", "QPlusPlus">>
    /\ FailedNotFound
    /\ NoCalculatorInvoked

\* the names of the registry, each once (no two entries share a key)
OnePerName ==
    \A i, j \in 1..Len(calculators) : calculators[i].key = calculators[j].key => i = j

\* a call of registerCalculator has just returned: request holds the
\* calculator it was given
JustRegistered == pc = "returned" /\ trace = <<"registerCalculator">>

\* C25: the registry holds at most one calculator per asset name, each under
\* its own name; a call of registerCalculator leaves the calculator it was
\* given as the one getCalculator returns for its name, leaves the calculators
\* of the other names as they were, and leaves the names getAvailableAssetNames
\* returns as they were, with the name added at the end when it is new; and
\* no other step changes the registry.
C25_OneCalculatorPerName ==
    /\ [](OnePerName
          /\ \A i \in 1..Len(calculators) :
                calculators[i].value.assetName = calculators[i].key)
    /\ [](JustRegistered =>
             getCalculator(calculators, request[1].assetName) = Returned(request[1]))
    /\ [][IF JustRegistered'
          THEN /\ \A n \in AssetNames \ {request'[1].assetName} :
                     getCalculator(calculators', n) = getCalculator(calculators, n)
               /\ getAvailableAssetNames(calculators') =
                     IF Registered(request'[1].assetName)
                     THEN getAvailableAssetNames(calculators)
                     ELSE Append(getAvailableAssetNames(calculators),
                                 request'[1].assetName)
          ELSE calculators' = calculators]_vars

\* After ATR, QPlusPlus and then a second ATR calculator were registered, the
\* names are ['ATR', 'QPlusPlus'] and the calculator of ATR is the second.
C25_Witness ==
    /\ JustRegistered
    /\ request[1] = [assetName |-> "ATR", id |-> 2]
    /\ calculators = <<[key |-> "ATR", value |-> [assetName |-> "ATR", id |-> 2]],
                       [key |-> "QPlusPlus", value |-> [assetName |-> "QPlusPlus", id |-> 1]]>>
    /\ getAvailableAssetNames(calculators) = <<"ATR", "QPlusPlus">>

----------------------------------------------------------------------------
(* Properties of concurrent calls of calculateCosts (SpecConcurrent). *)

\* the error calculateCosts of calculator c rejects the request with when no
\* other call runs, if it rejects it
FailureAlone(c, req) ==
    LET validation == validateComponents(req.hasComponents, req.assetComponents)
        build == calculateBuildCost(c, req)
        run == calculateRunCost(c, req)
    IN IF AssetNameMismatch(c, req)
       THEN <<[kind |-> "Invalid asset name", error |-> NoError, errors |-> <<>>]>>
       ELSE IF validation.threw
       THEN <<[kind |-> "validateComponents threw", error |-> NoError,
               errors |-> validation.errors]>>
       ELSE IF Len(validation.errors) > 0
       THEN <<[kind |-> "Invalid request components", error |-> NoError,
               errors |-> validation.errors]>>
       ELSE IF build.threw
       THEN <<[kind |-> "calculateBuildCost threw", error |-> build.error,
               errors |-> <<>>]>>
       ELSE IF run.threw
       THEN <<[kind |-> "calculateRunCost threw", error |-> run.error, errors |-> <<>>]>>
       ELSE <<>>

\* the response it returns when no other call runs, if it returns one
ResponseAlone(c, req, now) ==
    [assetName |-> c,
     buildCost |-> [total |-> Value(calculateBuildCost(c, req)).total,
                    currency |-> "USD",
                    breakdown |-> Value(calculateBuildCost(c, req)).breakdown],
     runCost |-> [total |-> Value(calculateRunCost(c, req)).total,
                  currency |-> "USD",
                  period |-> Value(calculateRunCost(c, req)).period,
                  breakdown |-> Value(calculateRunCost(c, req)).breakdown],
     estimationDate |-> now]

\* a call that has ended has ended as it does when no other call runs
EndsAsAlone(frame) ==
    /\ frame.pc = "failed" =>
          /\ frame.failure # <<>>
          /\ frame.failure = FailureAlone(calc, frame.request[1])
          /\ frame.response = <<>>
    /\ frame.pc = "done" =>
          /\ FailureAlone(calc, frame.request[1]) = <<>>
          /\ frame.response = <<ResponseAlone(calc, frame.request[1],
                                              frame.response[1].estimationDate)>>

\* the calls: the one that runs and the one that is parked
Frames == {Frame} \cup {parked[i] : i \in 1..Len(parked)}

\* C26: calculateCosts writes no shared state.  A call does not modify its
\* request or the calculator; each of two calls interleaved at their awaits
\* on one calculator returns the response, or fails with the error, that it
\* returns when run alone; and two calls with equal requests return
\* responses that are equal in everything except estimationDate.
C26_CallsAreIndependent ==
    /\ [](\A frame \in Frames : EndsAsAlone(frame))
    /\ [](\A f, g \in Frames :
             (f.pc = "done" /\ g.pc = "done" /\ f.request = g.request) =>
                [f.response[1] EXCEPT !.estimationDate = g.response[1].estimationDate]
                   = g.response[1])
    /\ [][/\ calc # "" => calc' = calc
          /\ (parked' = parked /\ pc # "idle") => request' = request
          /\ parked' # parked =>
                /\ parked'[1].request = request
                /\ parked # <<>> => request' = parked[1].request]_vars

\* A call of ATR for ignition has returned its response while another call,
\* for another deployment type and so with another run cost, is suspended at
\* its second await.
C26_Witness ==
    /\ calc = "ATR" /\ pc = "done" /\ parked # <<>>
    /\ parked[1].pc = "awaitRun"
    /\ request[1].commonFields.deploymentType = "cloud"
    /\ parked[1].request[1].commonFields.deploymentType = "onPremise"
    /\ request[1].assetComponents[1].name = "ignition"
    /\ response[1].runCost.total # parked[1].runCostResult[1].total
    /\ response[1].buildCost.total # Zero

----------------------------------------------------------------------------
(* Properties of the effort breakdown (SpecEffort). *)

\* the effortHours of the first n entries, added in order
RECURSIVE SumOfEntryHours(_)
SumOfEntryHours(n) ==
    IF n = 0 THEN Zero
    ELSE FAdd(SumOfEntryHours(n - 1), EffortCost.effortBreakdown[n].effortHours)

\* (allocation / 100) * workingHoursPerDay(location) * effortHours[location]
\* of a resource; effortHours[location] of a location the table lacks is
\* undefined, and the product is then NaN
HoursOfResource(resource) ==
    IF resource.location \in DOMAIN EffortHoursOfCall
    THEN FMul(FMul(FDivInt(resource.allocation, 100),
                   FromInt(WorkingDay(resource.location))),
              EffortHoursOfCall[resource.location])
    ELSE NaN

----------------------------------------------------------------------------
(* Properties of the run cost of ATR (Spec). *)

\* the monthly support cost per license, by support level
SupportPerLicense(supportLevel) ==
    CASE supportLevel = "basic" -> 100
      [] supportLevel = "standard" -> 250
      [] supportLevel = "premium" -> 500
      [] OTHER -> 250

\* a line item that is no error entry
PlainItem(item, name, amount) ==
    /\ item.costComponentName = name
    /\ item.amount = FromInt(amount)
    /\ ~item.isError

\* C28: for the ATR calculator and a licenseCount n of at least 1, the run
\* cost does not fail; its breakdown is 'License Fees' with 500 * n, then
\* 'Support' with 100 * n for basic, 250 * n for standard, 500 * n for premium
\* and 250 * n for an absent or unrecognized support level, then 'Cloud
\* Infrastructure' with 200 * n if and only if deploymentType is 'cloud'; the
\* period is 'monthly', no entry is an error entry, and the total is the sum.
C28_AtrRunCostBreakdown ==
    (/\ Admitted /\ calc = "ATR" /\ Started("calculateRunCost")
     /\ request[1].specificFields.hasLicenseCount
     /\ request[1].specificFields.licenseCount >= 1) =>
        LET n == request[1].specificFields.licenseCount
            cloud == request[1].commonFields.deploymentType = "cloud"
            items == runCostResult[1].breakdown
        IN /\ pc # "failed"
           /\ runCostResult # <<>>
           /\ runCostResult[1].period = "monthly"
           /\ Len(items) = IF cloud THEN 3 ELSE 2
           /\ PlainItem(items[1], "License Fees", 500 * n)
           /\ PlainItem(items[2], "Support",
                        SupportPerLicense(request[1].commonFields.supportLevel) * n)
           /\ cloud => PlainItem(items[3], "Cloud Infrastructure", 200 * n)
           /\ runCostResult[1].total =
                 FromInt((500 + SupportPerLicense(request[1].commonFields.supportLevel)
                              + (IF cloud THEN 200 ELSE 0)) * n)

\* ATR has answered a cloud request of 3 licenses with a support level it does
\* not know: 1500, 750 and 600 a month
C28_Witness ==
    /\ Admitted /\ calc = "ATR" /\ pc = "done"
    /\ request[1].specificFields.licenseCount = 3
    /\ request[1].commonFields.supportLevel = "gold"
    /\ request[1].commonFields.deploymentType = "cloud"
    /\ Len(response[1].runCost.breakdown) = 3
    /\ response[1].runCost.breakdown[2].amount = Dollars(750)
    /\ response[1].runCost.total = Dollars(2850)
    /\ response[1].runCost.period = "monthly"

----------------------------------------------------------------------------
(* Properties of the DTO the controller sends (SpecController). *)

\* the controller has mapped the response of the call to its DTO
Mapped ==
    /\ pc = "returned" /\ trace # <<>> /\ trace[Len(trace)] = "mapToDto"
    /\ response # <<>> /\ ret # <<>>

\* the sum of the amounts of a breakdown record, in the order of its entries
SumOfRecord(record) ==
    calculateTotalFromBreakdown([i \in 1..Len(record) |-> record[i].value])

\* C29: the DTO mapToDto makes of a response keeps every breakdown line item:
\* the buildCost and runCost breakdown records have as many entries as the
\* breakdown arrays of the response, and the amounts of each record sum to the
\* total reported with it, also when two line items share a costComponentName.
C29_DtoKeepsEveryLineItem ==
    Mapped =>
        /\ Len(ret[1].buildCost.breakdown) = Len(response[1].buildCost.breakdown)
        /\ Len(ret[1].runCost.breakdown) = Len(response[1].runCost.breakdown)
        /\ SumOfRecord(ret[1].buildCost.breakdown) = ret[1].buildCost.total
        /\ SumOfRecord(ret[1].runCost.breakdown) = ret[1].runCost.total

\* QPlusPlus has costed a component named 'Database Setup' together with the
\* surcharge for a large database, and the controller has mapped the two line
\* items of that name
C29_Witness ==
    /\ Mapped /\ calc = "QPlusPlus"
    /\ request[1].specificFields.databaseSize = "large"
    /\ Len(Components) = 1 /\ Components[1].name = "Database Setup"
    /\ Len(response[1].buildCost.breakdown) = 2
    /\ response[1].buildCost.breakdown[1].costComponentName = "Database Setup"
    /\ response[1].buildCost.breakdown[1].isError
    /\ response[1].buildCost.breakdown[2] = LineItem("Database Setup", Dollars(3000))
    /\ ret[1].buildCost.breakdown
         = <<[key |-> "Database Setup", value |-> [amount |-> Dollars(3000)]]>>
    /\ ret[1].buildCost.total = Dollars(3000)

----------------------------------------------------------------------------
(* Properties of QPlusPlus and specificFields.complexity (Spec). *)

\* the build cost QPlusPlus computes for the request of the call when its
\* specificFields carry no complexity
BuildCostWithoutSpecificComplexity ==
    QppCalculateBuildCost([request[1] EXCEPT !.specificFields.complexity = Absent])

\* C30: QPlusPlus takes the complexity of the build cost from the top level of
\* the request only: the build cost of a request, breakdown and total, is that
\* of the request that differs from it only in having no
\* specificFields.complexity.
C30_SpecificComplexityIsNotRead ==
    (calc = "QPlusPlus" /\ buildCostResult # <<>>) =>
        /\ ~BuildCostWithoutSpecificComplexity.threw
        /\ buildCostResult[1] = Value(BuildCostWithoutSpecificComplexity)

\* QPlusPlus has costed Frontend in India for a request with no top-level
\* complexity and specificFields.complexity 'Large': at Medium, which differs
\* from the cost at Large
C30_Witness ==
    /\ calc = "QPlusPlus" /\ pc = "done"
    /\ request[1].complexity = Absent
    /\ request[1].specificFields.complexity = "Large"
    /\ Len(Components) = 1 /\ Components[1].name = "Frontend"
    /\ Components[1].resourceModel[1].location = "India"
    /\ ~BuildBreakdown[1].isError
    /\ buildCostResult[1] = Value(QppBuildCostAt(request[1], "Medium"))
    /\ buildCostResult[1].total # Value(QppBuildCostAt(request[1], "Large")).total

=============================================================================
